---- MODULE Spec2Model ----
(***************************************************************************)
(* Order lifecycle of the duck-backend storefront, revision secure-4.0.    *)
(*                                                                         *)
(* The server is one Node.js process.  Each HTTP handler is an async       *)
(* function: it runs without interruption from one `await` to the next,    *)
(* and other handlers run while it is suspended.  The store is lowdb:      *)
(*   db.read()   reads db.json and, on completion, REPLACES db.data by the *)
(*               parsed content;                                           *)
(*   db.write()  serialises db.data at the moment of the call and puts the *)
(*               text in db.json later; writes reach the file in call      *)
(*               order.                                                    *)
(* `data` is db.data (shared by all handlers), `file` is db.json.          *)
(***************************************************************************)
EXTENDS Integers, Sequences, FiniteSets, TLC

(* ------------------------------- bounds -------------------------------- *)
MaxRequests == 2      \* requests accepted in one run
MaxInFlight == 2      \* request slots (handlers alive at the same time)
MaxClock    == 2      \* Date.now() ranges over 1..MaxClock; stored orders date from 0

(* -------------------------- program constants -------------------------- *)
MAX_CART_TOTAL == 10000

(* ------------------------------ JS values ------------------------------ *)
Undefined == "undefined"      \* an absent string-valued property
NoEmail   == <<>>             \* an absent email (emails are character sequences)
NoTime    == -1               \* an absent timestamp

Has(obj, f) == f \in DOMAIN obj          \* the property is present and truthy

Slots == 1..MaxInFlight

(* ------------------------------- inputs -------------------------------- *)
Email_ab  == <<"a", "@", "b", ".", "c">>
Email_xy  == <<"x", "@", "y", ".", "c">>
Email_bad == <<"a", "@", "b">>
Emails    == {Email_ab, Email_xy, Email_bad}

Codes     == {"123456"}

WebId     == <<"web", 1, 0>>

Cart_c30x2  == <<[id |-> "c30", qty |-> 2]>>
Cart_c30x60 == <<[id |-> "c30", qty |-> 60]>>
Cart_zz     == <<[id |-> "zz", qty |-> 1]>>
Cart_mixed  == <<[id |-> "zz", qty |-> 3], [id |-> "c30", qty |-> 1]>>
Cart_c80    == <<[id |-> "c80", qty |-> 1]>>
Cart_empty  == <<>>
Carts       == {Cart_c30x2, Cart_c30x60, Cart_zz, Cart_c80, Cart_empty}

Methods       == {"card"}
Secrets       == {"s3cret", "wrong"}
AdminStatuses == {"completed", "rejected", "shipped"}
AdminComments == {"ok"}
GatewayStatuses == {"success", "failed"}
Signatures    == {"valid", "forged"}
RandomHex     == {0, 1}
NewProducts   == {[id |-> "c30", price |-> 300], [id |-> "c80", price |-> 550]}

(* --------------------------- the environment --------------------------- *)
(* CONFIG as process.env makes it.  validateConfig lets the server start   *)
(* only with API_SECRET, SHOP_ID and BILEE_PASSWORD set; BOT_URL is        *)
(* optional.                                                               *)
EnvComplete ==
  [ SHOP_ID        |-> 77,
    BILEE_PASSWORD |-> <<"p", "w">>,
    API_SECRET     |-> "s3cret",
    BOT_URL        |-> "bot",
    MAX_CART_TOTAL |-> MAX_CART_TOTAL ]

EnvNoBot == [EnvComplete EXCEPT !.BOT_URL = Undefined]

(* Number(undefined): the SHOP_ID of a process started without the         *)
(* variable.  It is a number that equals no number, itself included; here  *)
(* a value no configured shop id has.                                      *)
NaN == -1

(* Deployments with a gateway credential missing: SHOP_ID unset, SHOP_ID   *)
(* set to 0, BILEE_PASSWORD unset.                                         *)
EnvNoShopId == [EnvComplete EXCEPT !.SHOP_ID = NaN]

EnvShopIdZero == [EnvComplete EXCEPT !.SHOP_ID = 0]

EnvNoPassword == [EnvComplete EXCEPT !.BILEE_PASSWORD = <<>>]

(* validateConfig(): the process exits at start-up unless this holds.      *)
validateConfig(env) ==
  ~(env.API_SECRET = Undefined \/ env.SHOP_ID = 0 \/ Len(env.BILEE_PASSWORD) = 0)

(* ------------------------------ the store ------------------------------ *)
Order(id, email, cart, amount, status, t, method) ==
  [ id |-> id, email |-> email, cart |-> cart, amount |-> amount,
    status |-> status, created_at |-> t, updated_at |-> t,
    payment_method |-> method,
    code |-> Undefined, code_submitted_at |-> NoTime,
    admin_comment |-> Undefined,
    completed_at |-> NoTime, rejected_at |-> NoTime,
    payment_status |-> Undefined, paid_at |-> NoTime ]

TestProducts == <<[id |-> "c30", price |-> 200]>>

DuckId == <<"duck", 0, 0>>

OrderCreated      == Order(DuckId, NoEmail, Cart_c30x2, 400, "created", 0, "card")
OrderPendingEmail == Order(WebId, Email_ab, Cart_c30x2, 400, "pending_email", 0, Undefined)
OrderPendingCode  ==
  [OrderPendingEmail EXCEPT !.code = "123456", !.status = "pending_code",
                            !.code_submitted_at = 0]
OrderCompleted    ==
  [OrderPendingCode EXCEPT !.status = "completed", !.completed_at = 0]

InitialOrders ==
  { <<>>, <<OrderCreated>>, <<OrderPendingEmail>>, <<OrderPendingCode>>,
    <<OrderCompleted>> }

defaultData == [products |-> TestProducts, orders |-> <<>>]

(* Array.prototype.findIndex: the first index whose element satisfies the  *)
(* test, 0 when there is none (JS: -1).                                    *)
findIndex(arr, id) ==
  IF \E i \in 1..Len(arr) : arr[i].id = id
    THEN CHOOSE i \in 1..Len(arr) :
           arr[i].id = id /\ \A j \in 1..(i - 1) : arr[j].id # id
    ELSE 0

RECURSIVE SumCart(_, _, _)
SumCart(products, cart, i) ==
  IF i > Len(cart) THEN 0
  ELSE LET p == findIndex(products, cart[i].id)
       IN  (IF p # 0 THEN products[p].price * cart[i].qty ELSE 0)
           + SumCart(products, cart, i + 1)

calculateOrderTotal(products, cart) == SumCart(products, cart, 1)

(* /^[^\s@]+@[^\s@]+\.[^\s@]+$/ on a sequence of characters.               *)
Plain(e, lo, hi) ==
  lo <= hi /\ \A k \in lo..hi : e[k] \notin {" ", "@"}

emailRegexTestNoTld(e) ==
  \E i \in 1..Len(e) :
     e[i] = "@" /\ Plain(e, 1, i - 1) /\ Plain(e, i + 1, Len(e))

emailRegexTest(e) ==
  \E i \in 1..Len(e) : \E j \in (i + 1)..Len(e) :
     /\ e[i] = "@" /\ e[j] = "."
     /\ Plain(e, 1, i - 1) /\ Plain(e, i + 1, j - 1) /\ Plain(e, j + 1, Len(e))

(* ------------------------------- state --------------------------------- *)
VARIABLES
  CONFIG,     \* the configuration read from process.env at start-up
  quota,      \* number of requests the clients send in this run
  now,        \* the wall clock, Date.now()
  file,       \* db.json: [products, orders]
  data,       \* db.data, the in-memory copy every handler works on
  writeQ,     \* slots whose db.write() has not reached the file, call order
  reqs,       \* per slot: the handler invocation living there
  gateway,    \* payment-initiation requests POSTed to the gateway
  started     \* number of requests accepted so far

vars == <<CONFIG, quota, now, file, data, writeQ, reqs, gateway, started>>

NoDb   == [products |-> <<>>, orders |-> <<>>]
NoResp == [http |-> 0]
Idle   == [kind |-> "none", pc |-> "idle", body |-> <<>>, img |-> NoDb,
           loc |-> <<>>, resp |-> NoResp]

(* The server has started: db.json, as earlier runs left it, is loaded.     *)
Started(stores, envs, n) ==
  /\ CONFIG \in envs
  /\ quota = n
  /\ now = 1
  /\ \E os \in stores : file = [defaultData EXCEPT !.orders = os]
  /\ data = file
  /\ writeQ = <<>>
  /\ reqs = [s \in Slots |-> Idle]
  /\ gateway = <<>>
  /\ started = 0

Init == Started(InitialOrders, {EnvComplete, EnvNoBot}, MaxRequests)

(* A new request is accepted in the lowest slot whose handler is not       *)
(* running.                                                                *)
Free(s) ==
  /\ started < quota
  /\ reqs[s].pc \in {"idle", "done"}
  /\ \A t \in 1..(s - 1) : reqs[t].pc \notin {"idle", "done"}

Answer(s, kind, body, loc, resp) ==
  [kind |-> kind, pc |-> "done", body |-> body, img |-> NoDb,
   loc |-> loc, resp |-> resp]

(* res.status(h).json({success: false, code: c}) before any await.         *)
Reject(s, kind, body, h, c) ==
  /\ reqs' = [reqs EXCEPT ![s] =
                Answer(s, kind, body, <<>>, [http |-> h, success |-> FALSE, code |-> c])]
  /\ started' = started + 1
  /\ UNCHANGED <<CONFIG, quota, now, file, data, writeQ, gateway>>

(* `await db.read()` is entered: the file content is fetched now and       *)
(* installed as db.data when the read completes.                           *)
BeginRead(s, kind, body, loc) ==
  /\ reqs' = [reqs EXCEPT ![s] =
                [kind |-> kind, pc |-> "read", body |-> body, img |-> file,
                 loc |-> loc, resp |-> NoResp]]
  /\ started' = started + 1
  /\ UNCHANGED <<CONFIG, quota, now, file, data, writeQ, gateway>>

(* The read completed, the handler answered without writing.               *)
ReadAnswer(s, resp) ==
  /\ data' = reqs[s].img
  /\ reqs' = [reqs EXCEPT ![s].pc = "done", ![s].resp = resp, ![s].img = NoDb]
  /\ UNCHANGED <<CONFIG, quota, now, file, writeQ, gateway, started>>

(* The read completed, the handler changed db.data to d and called         *)
(* `await db.write()`, which serialises d.                                 *)
ReadWrite(s, d, loc) ==
  /\ data' = d
  /\ reqs' = [reqs EXCEPT ![s].pc = "write", ![s].img = d, ![s].loc = loc]
  /\ writeQ' = Append(writeQ, s)
  /\ UNCHANGED <<CONFIG, quota, now, file, gateway, started>>

Tick ==
  /\ now < MaxClock
  /\ now' = now + 1
  /\ UNCHANGED <<CONFIG, quota, file, data, writeQ, reqs, gateway, started>>

(* `amount > CONFIG.MAX_CART_TOTAL`, in /submit-email and /create-payment  *)
exceedsCartLimitDoubled(amountRub) == amountRub > 2 * CONFIG.MAX_CART_TOTAL

exceedsCartLimit(amountRub) == amountRub > CONFIG.MAX_CART_TOTAL

(* ----------------------- POST /submit-email ---------------------------- *)
SubmitEmailBodies ==
  {[order_id |-> WebId, email |-> e, cart |-> Cart_c30x2] : e \in Emails}
  \cup {[order_id |-> WebId, email |-> Email_ab, cart |-> c] :
           c \in {Cart_mixed, Cart_c30x60}}
  \cup {[order_id |-> DuckId, email |-> Email_ab, cart |-> Cart_c30x2],
        [order_id |-> WebId, email |-> Email_ab]}

SubmitEmail(s) ==
  /\ Free(s)
  /\ \E body \in SubmitEmailBodies :
       IF ~(Has(body, "order_id") /\ Has(body, "email") /\ Has(body, "cart"))
         THEN Reject(s, "submit_email", body, 400, "VALIDATION_ERROR")
       ELSE IF ~emailRegexTest(body.email)
         THEN Reject(s, "submit_email", body, 400, "INVALID_EMAIL")
       ELSE BeginRead(s, "submit_email", body, <<>>)

SubmitEmailStoreAppending(orders, body, amount, t) ==
  Append(orders, Order(body.order_id, body.email, body.cart, amount,
                       "pending_email", t, Undefined))

SubmitEmailStore(orders, body, amount, t) ==
  LET orderIndex == findIndex(orders, body.order_id)
  IN  IF orderIndex = 0
        THEN Append(orders, Order(body.order_id, body.email, body.cart, amount,
                                  "pending_email", t, Undefined))
        ELSE [orders EXCEPT ![orderIndex].email = body.email,
                            ![orderIndex].cart = body.cart,
                            ![orderIndex].amount = amount,
                            ![orderIndex].status = "pending_email",
                            ![orderIndex].updated_at = t]

SubmitEmailRead(s) ==
  /\ reqs[s].kind = "submit_email" /\ reqs[s].pc = "read"
  /\ LET body   == reqs[s].body
         db     == reqs[s].img
         amount == calculateOrderTotal(db.products, body.cart)
     IN  IF exceedsCartLimit(amount)
           THEN ReadAnswer(s, [http |-> 400, success |-> FALSE,
                               code |-> "CART_LIMIT_EXCEEDED"])
           ELSE ReadWrite(s,
                  [db EXCEPT !.orders = SubmitEmailStore(db.orders, body, amount, now)],
                  [amount |-> amount])

(* db.write() of slot s reaches db.json; its handler resumes.              *)
WrittenNotCommitted(s, kind) ==
  /\ reqs[s].kind = kind /\ reqs[s].pc = "write"
  /\ writeQ # <<>> /\ Head(writeQ) = s
  /\ file' = file
  /\ writeQ' = Tail(writeQ)

Written(s, kind) ==
  /\ reqs[s].kind = kind /\ reqs[s].pc = "write"
  /\ writeQ # <<>> /\ Head(writeQ) = s
  /\ file' = reqs[s].img
  /\ writeQ' = Tail(writeQ)

(* notifyBot(orderData): the request body sent to the bot.                 *)
requestData(order_id, email, items, amount, code, stage) ==
  [order_id |-> order_id, email |-> email, items |-> items, amount |-> amount,
   code |-> code, stage |-> stage, secret |-> CONFIG.API_SECRET]

(* The handler calls `await notifyBot(rd)` and will answer `ok` with       *)
(* bot_notified set to the outcome.                                        *)
CallNotifyBot(s, rd, ok) ==
  IF CONFIG.BOT_URL = Undefined \/ CONFIG.API_SECRET = Undefined
    THEN reqs' = [reqs EXCEPT ![s].pc = "done", ![s].img = NoDb,
                              ![s].resp = [ok EXCEPT !.bot_notified = FALSE]]
    ELSE reqs' = [reqs EXCEPT ![s].pc = "notify", ![s].img = NoDb,
                              ![s].loc = [notify |-> rd, ok |-> ok]]

(* axios.post to the bot returned 2xx (TRUE), or returned another status,  *)
(* failed or timed out (FALSE).                                            *)
NotifyDone(s) ==
  /\ reqs[s].pc = "notify"
  /\ \E delivered \in BOOLEAN :
       reqs' = [reqs EXCEPT ![s].pc = "done",
                            ![s].resp = [reqs[s].loc.ok EXCEPT !.bot_notified = delivered]]
  /\ UNCHANGED <<CONFIG, quota, now, file, data, writeQ, gateway, started>>

ServerError == [http |-> 500, success |-> FALSE, code |-> "INTERNAL_ERROR"]

SubmitEmailWritten(s) ==
  /\ Written(s, "submit_email")
  /\ LET body == reqs[s].body
         amount == reqs[s].loc.amount
     IN  CallNotifyBot(s,
           requestData(body.order_id, body.email, body.cart, amount, Undefined,
                       "email_submitted"),
           [http |-> 200, success |-> TRUE, order_id |-> body.order_id,
            email |-> body.email, amount |-> amount, bot_notified |-> FALSE])
  /\ UNCHANGED <<CONFIG, quota, now, data, gateway, started>>

(* ----------------------- POST /api/submit-code ------------------------- *)
SubmitCodeBodies ==
  {[order_id |-> WebId, email |-> e, code |-> c] :
       e \in {Email_ab, Email_xy}, c \in Codes}
  \cup {[order_id |-> DuckId, email |-> Email_ab, code |-> c] : c \in Codes}
  \cup {[order_id |-> WebId, email |-> Email_ab]}

SubmitCode(s) ==
  /\ Free(s)
  /\ \E body \in SubmitCodeBodies :
       IF ~(Has(body, "order_id") /\ Has(body, "email") /\ Has(body, "code"))
         THEN Reject(s, "submit_code", body, 400, "VALIDATION_ERROR")
         ELSE BeginRead(s, "submit_code", body, <<>>)

SubmitCodeStoreUnlessTerminal(orders, orderIndex, body, t) ==
  IF orders[orderIndex].status \in {"completed", "rejected"} THEN orders
  ELSE [orders EXCEPT ![orderIndex].code = body.code,
                      ![orderIndex].status = "pending_code",
                      ![orderIndex].code_submitted_at = t,
                      ![orderIndex].updated_at = t]

SubmitCodeStore(orders, orderIndex, body, t) ==
  [orders EXCEPT ![orderIndex].code = body.code,
                 ![orderIndex].status = "pending_code",
                 ![orderIndex].code_submitted_at = t,
                 ![orderIndex].updated_at = t]

(* `db.data.orders[orderIndex].email !== email`                            *)
emailMismatchLenient(order, email) == order.email # NoEmail /\ order.email # email

emailMismatch(order, email) == order.email # email

SubmitCodeRead(s) ==
  /\ reqs[s].kind = "submit_code" /\ reqs[s].pc = "read"
  /\ LET body       == reqs[s].body
         db         == reqs[s].img
         orderIndex == findIndex(db.orders, body.order_id)
     IN  IF orderIndex = 0
           THEN ReadAnswer(s, [http |-> 404, success |-> FALSE,
                               code |-> "ORDER_NOT_FOUND"])
         ELSE IF emailMismatch(db.orders[orderIndex], body.email)
           THEN ReadAnswer(s, [http |-> 400, success |-> FALSE,
                               code |-> "EMAIL_MISMATCH"])
         ELSE ReadWrite(s,
                [db EXCEPT !.orders = SubmitCodeStore(db.orders, orderIndex, body, now)],
                [orderIndex |-> orderIndex])

(* After the write the handler reads db.data.orders[orderIndex] again: the *)
(* array may have been replaced meanwhile, and an index past its end       *)
(* throws into the catch block.                                            *)
SubmitCodeWritten(s) ==
  /\ Written(s, "submit_code")
  /\ LET body == reqs[s].body
         orderIndex == reqs[s].loc.orderIndex
     IN  IF orderIndex > Len(data.orders)
           THEN reqs' = [reqs EXCEPT ![s].pc = "done", ![s].img = NoDb,
                                     ![s].resp = ServerError]
           ELSE CallNotifyBot(s,
                  requestData(body.order_id, body.email,
                              data.orders[orderIndex].cart,
                              data.orders[orderIndex].amount,
                              body.code, "code_submitted"),
                  [http |-> 200, success |-> TRUE, order_id |-> body.order_id,
                   status |-> "pending", bot_notified |-> FALSE])
  /\ UNCHANGED <<CONFIG, quota, now, data, gateway, started>>

(* ------------------- POST /api/order-status-update --------------------- *)
(* verifyApiSecret: the secret the client sent is present and equal to     *)
(* CONFIG.API_SECRET.                                                      *)
verifyApiSecretPresent(body) == Has(body, "secret")

verifyApiSecret(body) ==
  Has(body, "secret") /\ body.secret = CONFIG.API_SECRET

StatusUpdateBodies ==
  {[order_id |-> WebId, status |-> st, secret |-> "s3cret"] : st \in AdminStatuses}
  \cup {[order_id |-> WebId, status |-> "completed", secret |-> k] : k \in Secrets}
  \cup {[order_id |-> WebId, status |-> "rejected", admin_comment |-> c,
         secret |-> "s3cret"] : c \in AdminComments}
  \cup {[order_id |-> DuckId, status |-> "completed", secret |-> "s3cret"],
        [order_id |-> WebId, status |-> "completed"],
        [order_id |-> WebId, secret |-> "s3cret"]}

StatusUpdate(s) ==
  /\ Free(s)
  /\ \E body \in StatusUpdateBodies :
       IF ~verifyApiSecret(body)
         THEN Reject(s, "status_update", body, 403, "UNAUTHORIZED")
       ELSE IF ~(Has(body, "order_id") /\ Has(body, "status"))
         THEN Reject(s, "status_update", body, 400, "VALIDATION_ERROR")
       ELSE BeginRead(s, "status_update", body, <<>>)

StatusUpdateStore(orders, orderIndex, body, t) ==
  LET o  == orders[orderIndex]
      o1 == [o EXCEPT !.status = body.status, !.updated_at = t]
      o2 == IF Has(body, "admin_comment")
              THEN [o1 EXCEPT !.admin_comment = body.admin_comment] ELSE o1
      o3 == IF body.status = "completed" THEN [o2 EXCEPT !.completed_at = t]
            ELSE IF body.status = "rejected" THEN [o2 EXCEPT !.rejected_at = t]
            ELSE o2
  IN  [orders EXCEPT ![orderIndex] = o3]

StatusUpdateRead(s) ==
  /\ reqs[s].kind = "status_update" /\ reqs[s].pc = "read"
  /\ LET body       == reqs[s].body
         db         == reqs[s].img
         orderIndex == findIndex(db.orders, body.order_id)
     IN  IF orderIndex = 0
           THEN ReadAnswer(s, [http |-> 404, success |-> FALSE,
                               code |-> "ORDER_NOT_FOUND"])
           ELSE ReadWrite(s,
                  [db EXCEPT !.orders = StatusUpdateStore(db.orders, orderIndex, body, now)],
                  [orderIndex |-> orderIndex])

StatusUpdateWritten(s) ==
  /\ Written(s, "status_update")
  /\ LET body == reqs[s].body
         orderIndex == reqs[s].loc.orderIndex
     IN  reqs' = [reqs EXCEPT ![s].pc = "done", ![s].img = NoDb, ![s].resp =
           IF orderIndex > Len(data.orders) THEN ServerError
           ELSE [http |-> 200, success |-> TRUE, order_id |-> body.order_id,
                 status |-> body.status,
                 updated_at |-> data.orders[orderIndex].updated_at]]
  /\ UNCHANGED <<CONFIG, quota, now, data, gateway, started>>

(* -------------------- GET /api/order-status/:order_id ------------------ *)
OrderStatusQuery(s) ==
  /\ Free(s)
  /\ \E i \in {WebId, DuckId} :
       BeginRead(s, "order_status", [order_id |-> i], <<>>)

OrderStatusRead(s) ==
  /\ reqs[s].kind = "order_status" /\ reqs[s].pc = "read"
  /\ LET db         == reqs[s].img
         orderIndex == findIndex(db.orders, reqs[s].body.order_id)
     IN  IF orderIndex = 0
           THEN ReadAnswer(s, [http |-> 404, success |-> FALSE,
                               code |-> "ORDER_NOT_FOUND"])
           ELSE LET order == db.orders[orderIndex]
                IN  ReadAnswer(s, [http |-> 200, success |-> TRUE,
                                   order_id |-> order.id, email |-> order.email,
                                   code |-> order.code, status |-> order.status,
                                   amount |-> order.amount,
                                   created_at |-> order.created_at,
                                   updated_at |-> order.updated_at])

(* ------------- POST /api/add-product, /api/delete-product -------------- *)
AddProduct(s) ==
  /\ Free(s)
  /\ \E p \in NewProducts, k \in {CONFIG.API_SECRET} :
       LET body == [id |-> p.id, price |-> p.price, secret |-> k]
       IN  IF ~verifyApiSecret(body)
             THEN Reject(s, "add_product", body, 403, "UNAUTHORIZED")
             ELSE BeginRead(s, "add_product", body, <<>>)

AddProductRead(s) ==
  /\ reqs[s].kind = "add_product" /\ reqs[s].pc = "read"
  /\ LET body == reqs[s].body
         db   == reqs[s].img
     IN  IF findIndex(db.products, body.id) # 0
           THEN ReadAnswer(s, [http |-> 409, success |-> FALSE,
                               code |-> "DUPLICATE_PRODUCT"])
           ELSE ReadWrite(s,
                  [db EXCEPT !.products =
                     Append(db.products, [id |-> body.id, price |-> body.price])],
                  <<>>)

DeleteProduct(s) ==
  /\ Free(s)
  /\ \E i \in {"c30"}, k \in {CONFIG.API_SECRET} :
       LET body == [id |-> i, secret |-> k]
       IN  IF ~verifyApiSecret(body)
             THEN Reject(s, "delete_product", body, 403, "UNAUTHORIZED")
             ELSE BeginRead(s, "delete_product", body, <<>>)

DeleteProductRead(s) ==
  /\ reqs[s].kind = "delete_product" /\ reqs[s].pc = "read"
  /\ LET body == reqs[s].body
         db   == reqs[s].img
         kept == SelectSeq(db.products, LAMBDA p : p.id # body.id)
     IN  IF Len(kept) = Len(db.products)
           THEN /\ data' = [db EXCEPT !.products = kept]
                /\ reqs' = [reqs EXCEPT ![s].pc = "done", ![s].img = NoDb,
                                        ![s].resp = [http |-> 404, success |-> FALSE,
                                                     code |-> "NOT_FOUND"]]
                /\ UNCHANGED <<CONFIG, quota, now, file, writeQ, gateway, started>>
           ELSE ReadWrite(s, [db EXCEPT !.products = kept], <<>>)

ProductWritten(s) ==
  /\ \/ Written(s, "add_product")
     \/ Written(s, "delete_product")
  /\ reqs' = [reqs EXCEPT ![s].pc = "done", ![s].img = NoDb,
                          ![s].resp = [http |-> 200, success |-> TRUE]]
  /\ UNCHANGED <<CONFIG, quota, now, data, gateway, started>>

(* -------------------------- generateSignature -------------------------- *)
(* A JS object is the sequence of its <<key, value>> pairs in insertion    *)
(* order, keys distinct; keys and strings are sequences of characters.     *)
Num(n) == [t |-> "number", v |-> n]
Str(w) == [t |-> "string", v |-> w]
Null   == [t |-> "null", v |-> 0]

Key_amount    == <<"a", "m", "o", "u", "n", "t">>
Key_order_id  == <<"o", "r", "d", "e", "r", "_", "i", "d">>
Key_password  == <<"p", "a", "s", "s", "w", "o", "r", "d">>
Key_signature == <<"s", "i", "g", "n", "a", "t", "u", "r", "e">>
Key_metadata  == <<"m", "e", "t", "a", "d", "a", "t", "a">>
Key_Z         == <<"Z">>

(* The characters used, in the order of their UTF-16 code units.           *)
CodeUnits ==
  <<"0", "1", "2", "3", "4", "5", "6", "7", "8", "9", "Z", "_",
    "a", "d", "e", "g", "i", "m", "n", "o", "p", "r", "s", "t", "u", "w", "x">>

CodeUnit(c) == CHOOSE k \in 1..Len(CodeUnits) : CodeUnits[k] = c

(* The comparison Array.prototype.sort() makes without a comparator: the   *)
(* strings, code unit by code unit; a proper prefix comes first.           *)
SortsBefore(a, b) ==
  \E k \in 1..(Len(a) + 1) :
     /\ k <= Len(b)
     /\ \A m \in 1..(k - 1) : a[m] = b[m]
     /\ k = Len(a) + 1 \/ CodeUnit(a[k]) < CodeUnit(b[k])

RECURSIVE Sorted(_)
Sorted(keys) ==
  IF keys = {} THEN <<>>
  ELSE LET first == CHOOSE a \in keys : \A b \in keys \ {a} : SortsBefore(a, b)
       IN  <<first>> \o Sorted(keys \ {first})

(* Number.prototype.toString() of a non-negative integer.                  *)
RECURSIVE NumberToString(_)
NumberToString(n) ==
  IF n < 10 THEN <<CodeUnits[n + 1]>>
  ELSE NumberToString(n \div 10) \o <<CodeUnits[(n % 10) + 1]>>

(* The string Array.prototype.join puts in for an element: null and        *)
(* undefined give the empty string.                                        *)
JoinString(value) ==
  CASE value.t = "number" -> NumberToString(value.v)
    [] value.t = "string" -> value.v
    [] OTHER -> <<>>

(* obj[key] = value: an existing key keeps its place, a new one is added   *)
(* at the end.                                                             *)
Put(obj, key, value) ==
  IF \E i \in 1..Len(obj) : obj[i][1] = key
    THEN [i \in 1..Len(obj) |-> IF obj[i][1] = key THEN <<key, value>> ELSE obj[i]]
    ELSE Append(obj, <<key, value>>)

(* {...data, password}                                                     *)
tokenData(payload, password) == Put(payload, Key_password, Str(password))

excludedKeysSignatureOnly == {Key_signature}

excludedKeysAmountToo == {Key_metadata, Key_signature, Key_amount}

excludedKeys == {Key_metadata, Key_signature}

ObjectKeys(obj) == {obj[i][1] : i \in 1..Len(obj)}

Get(obj, key) == obj[CHOOSE i \in 1..Len(obj) : obj[i][1] = key][2]

sortedKeysUnsorted(obj) ==
  LET kept == SelectSeq(obj, LAMBDA kv : kv[1] \notin excludedKeys)
  IN  [i \in 1..Len(kept) |-> kept[i][1]]

sortedKeys(obj) == Sorted(ObjectKeys(obj) \ excludedKeys)

RECURSIVE Join(_, _, _)
Join(obj, keys, i) ==
  IF i > Len(keys) THEN <<>>
  ELSE JoinString(Get(obj, keys[i])) \o Join(obj, keys, i + 1)

valuesString(payload, password) ==
  LET obj == tokenData(payload, password) IN Join(obj, sortedKeys(obj), 1)

(* SHA-256 in hex, taken as collision-free: the digest stands for the      *)
(* string hashed.                                                          *)
Sha256Hex(w) == <<"sha256:">> \o w

(* generateSignature(data, password) of the earlier revisions.             *)
generateSignatureNode(payload, password) == Sha256Hex(valuesString(payload, password))

generateSignature(payload) == generateSignatureNode(payload, CONFIG.BILEE_PASSWORD)

(* The signing step of /create-payment, for any payload:                   *)
(* `payload.signature = generateSignature(payload)`.                       *)
SignKeys ==
  {Key_amount, Key_order_id, Key_password, Key_signature, Key_metadata, Key_Z}

SignValues == {Num(100), Str(<<"x">>), Str(<<"1", "0", "0">>), Null}

MaxFields == 3

(* The fields a payload can have: amount, order_id and Z hold any value,  *)
(* password, signature and metadata a string or null.                      *)
SignFields ==
  {kv \in SignKeys \X SignValues :
     kv[1] \in {Key_password, Key_signature, Key_metadata} =>
       kv[2] \in {Str(<<"x">>), Null}}

SignPayloads ==
  UNION {{p \in [1..n -> SignFields] :
            \A i, j \in 1..n : p[i][1] = p[j][1] => i = j} : n \in 0..MaxFields}

EnvSecret_s == [EnvComplete EXCEPT !.BILEE_PASSWORD = <<"s">>]

InitSign ==
  /\ CONFIG \in {EnvComplete, EnvSecret_s}
  /\ quota = 0 /\ started = 0 /\ now = 1
  /\ file = defaultData /\ data = file
  /\ writeQ = <<>> /\ gateway = <<>>
  /\ \E p \in SignPayloads :
       reqs = [s \in Slots |->
                 IF s = 1 THEN [Idle EXCEPT !.kind = "sign", !.pc = "call", !.body = p]
                 ELSE Idle]

SignPayload(s) ==
  /\ reqs[s].kind = "sign" /\ reqs[s].pc = "call"
  /\ LET payload == reqs[s].body
     IN  reqs' = [reqs EXCEPT
           ![s].pc = "done",
           ![s].loc = [valuesString |-> valuesString(payload, CONFIG.BILEE_PASSWORD)],
           ![s].resp = [http |-> 0,
                        payload |-> Put(payload, Key_signature,
                                        Str(generateSignature(payload)))]]
  /\ UNCHANGED <<CONFIG, quota, now, file, data, writeQ, gateway, started>>

NextSign == \E s \in Slots : SignPayload(s)

SpecSign == InitSign /\ [][NextSign]_vars

(* ------------------------ POST /create-payment ------------------------- *)
CreatePaymentBodies ==
  {[items |-> c, method |-> m] : c \in Carts, m \in Methods}
  \cup {[items |-> Cart_c30x2]}

(* Bodies whose quantities are zero or negative: req.body is not checked   *)
(* beyond `!items || !method`.                                             *)
Cart_c30x0   == <<[id |-> "c30", qty |-> 0]>>
Cart_c30xNeg == <<[id |-> "c30", qty |-> -1]>>

AnyQuantityBodies ==
  {[items |-> c, method |-> m] :
      c \in {Cart_c30x2, Cart_c30x0, Cart_c30xNeg}, m \in Methods}

(* `duck_${Date.now()}_${crypto.randomBytes(4).toString('hex')}`           *)
generateOrderId(t, r) == <<"duck", t, r>>

(* `amountRub === 0`                                                       *)
isZeroTotalNever(amountRub) == amountRub < 0

isZeroTotal(amountRub) == amountRub = 0

(* The total is computed from db.data as it is when the request arrives,   *)
(* before `await db.read()`.                                               *)
CreatePaymentFrom(s, bodies) ==
  /\ Free(s)
  /\ \E body \in bodies, r \in RandomHex :
       IF ~(Has(body, "items") /\ Has(body, "method"))
         THEN Reject(s, "create_payment", body, 400, "VALIDATION_ERROR")
       ELSE IF CONFIG.SHOP_ID = 0 \/ Len(CONFIG.BILEE_PASSWORD) = 0
         THEN Reject(s, "create_payment", body, 500, "PAYMENT_NOT_CONFIGURED")
       ELSE LET amountRub == calculateOrderTotal(data.products, body.items)
            IN  IF isZeroTotal(amountRub)
                  THEN Reject(s, "create_payment", body, 400, "EMPTY_CART")
                ELSE IF exceedsCartLimit(amountRub)
                  THEN Reject(s, "create_payment", body, 400, "CART_LIMIT_EXCEEDED")
                ELSE BeginRead(s, "create_payment", body,
                               [amountRub |-> amountRub,
                                order_id |-> generateOrderId(now, r)])

CreatePayment(s) == CreatePaymentFrom(s, CreatePaymentBodies)

CreatePaymentAnyQuantity(s) == CreatePaymentFrom(s, AnyQuantityBodies)

CreatePaymentRead(s) ==
  /\ reqs[s].kind = "create_payment" /\ reqs[s].pc = "read"
  /\ LET body == reqs[s].body
         loc  == reqs[s].loc
         db   == reqs[s].img
         newOrder == Order(loc.order_id, NoEmail, body.items, loc.amountRub,
                           "created", now, body.method)
     IN  ReadWrite(s, [db EXCEPT !.orders = Append(db.orders, newOrder)], loc)

(* The signed payment-initiation payload is POSTed once the order is       *)
(* written.                                                                *)
CreatePaymentWritten(s) ==
  /\ Written(s, "create_payment")
  /\ LET loc == reqs[s].loc
         payload == [order_id |-> loc.order_id, method_slug |-> reqs[s].body.method,
                     amount |-> loc.amountRub, shop_id |-> CONFIG.SHOP_ID]
     IN  /\ gateway' = Append(gateway, payload)
         /\ reqs' = [reqs EXCEPT ![s].pc = "gateway", ![s].img = NoDb]
  /\ UNCHANGED <<CONFIG, quota, now, data, started>>

GatewayReplies == {"url", "no_url", "non_2xx", "timeout"}

(* The gateway answered (or axios gave up after 15 s); there is no retry.  *)
(* `reply` is what the handler holds in `response` or, in the catch block, *)
(* in `error`.                                                             *)
GatewayReplyRetrying(s) ==
  /\ reqs[s].kind = "create_payment" /\ reqs[s].pc = "gateway"
  /\ IF Len(gateway) <= MaxRequests
       THEN gateway' = Append(gateway, gateway[Len(gateway)]) /\ reqs' = reqs
       ELSE gateway' = gateway /\
            reqs' = [reqs EXCEPT ![s].pc = "done", ![s].resp =
                       [http |-> 500, success |-> FALSE, code |-> "TIMEOUT"],
                     ![s].loc = [reply |-> "timeout"] @@ reqs[s].loc]
  /\ UNCHANGED <<CONFIG, quota, now, file, data, writeQ, started>>

GatewayReply(s) ==
  /\ reqs[s].kind = "create_payment" /\ reqs[s].pc = "gateway"
  /\ \E reply \in GatewayReplies :
       reqs' = [reqs EXCEPT ![s].pc = "done",
                            ![s].loc = [reply |-> reply] @@ reqs[s].loc,
                            ![s].resp =
         CASE reply = "url" ->
                [http |-> 200, success |-> TRUE, url |-> "pay",
                 order_id |-> reqs[s].loc.order_id, amount |-> reqs[s].loc.amountRub]
           [] reply = "no_url" -> ServerError
           [] reply = "non_2xx" ->
                [http |-> 502, success |-> FALSE, code |-> "PAYMENT_GATEWAY_ERROR"]
           [] reply = "timeout" ->
                [http |-> 500, success |-> FALSE, code |-> "TIMEOUT"]]
  /\ UNCHANGED <<CONFIG, quota, now, file, data, writeQ, gateway, started>>

(* -------------------------- POST /bilee-notify ------------------------- *)
(* The body carries a signature; the handler reads order_id, status and    *)
(* amount only.                                                            *)
WebhookBodies ==
  {[order_id |-> WebId, status |-> st, amount |-> 400, signature |-> g] :
       st \in GatewayStatuses, g \in Signatures}
  \cup {[order_id |-> DuckId, status |-> "success", amount |-> 400,
         signature |-> "valid"],
        [status |-> "success", amount |-> 400, signature |-> "valid"]}

WebhookAckNotFound == [http |-> 404, success |-> FALSE, received |-> FALSE]

WebhookAck == [http |-> 200, success |-> TRUE, received |-> TRUE]

Webhook(s) ==
  /\ Free(s)
  /\ \E body \in WebhookBodies :
       IF Has(body, "order_id")
         THEN BeginRead(s, "webhook", body, <<>>)
         ELSE /\ reqs' = [reqs EXCEPT ![s] = Answer(s, "webhook", body, <<>>, WebhookAck)]
              /\ started' = started + 1
              /\ UNCHANGED <<CONFIG, quota, now, file, data, writeQ, gateway>>

WebhookStore(orders, orderIndex, body, t) ==
  LET o  == orders[orderIndex]
      o1 == [o EXCEPT !.payment_status = body.status, !.updated_at = t]
      o2 == IF body.status = "success" THEN [o1 EXCEPT !.paid_at = t] ELSE o1
  IN  [orders EXCEPT ![orderIndex] = o2]

WebhookRead(s) ==
  /\ reqs[s].kind = "webhook" /\ reqs[s].pc = "read"
  /\ LET body       == reqs[s].body
         db         == reqs[s].img
         orderIndex == findIndex(db.orders, body.order_id)
     IN  IF orderIndex = 0
           THEN ReadAnswer(s, WebhookAck)
           ELSE ReadWrite(s,
                  [db EXCEPT !.orders = WebhookStore(db.orders, orderIndex, body, now)],
                  [orderIndex |-> orderIndex])

WebhookWritten(s) ==
  /\ Written(s, "webhook")
  /\ reqs' = [reqs EXCEPT ![s].pc = "done", ![s].img = NoDb, ![s].resp = WebhookAck]
  /\ UNCHANGED <<CONFIG, quota, now, data, gateway, started>>

(* ------------------------ GET /api/admin/orders ------------------------ *)
(* req.query: secret, and optionally status, limit and offset.             *)
AdminLimits  == {1, 2}
AdminOffsets == {0, 1}
AdminFilters == {"created", "pending_email"}

AdminOrdersQueries ==
  {[secret |-> k] : k \in Secrets}
  \cup {[secret |-> "s3cret", status |-> st] : st \in AdminFilters}
  \cup {[secret |-> "s3cret", limit |-> n, offset |-> k] :
           n \in AdminLimits, k \in AdminOffsets}
  \cup {[secret |-> "s3cret", status |-> st, limit |-> n, offset |-> k] :
           st \in AdminFilters, n \in AdminLimits, k \in AdminOffsets}

(* `const { limit = 50, status, offset = 0 } = req.query`                  *)
DefaultLimit == 50

queryLimit(query) == IF Has(query, "limit") THEN query.limit ELSE DefaultLimit

queryOffset(query) == IF Has(query, "offset") THEN query.offset ELSE 0

(* orders.filter(o => o.status === status)                                 *)
filterByStatus(orders, status) == SelectSeq(orders, LAMBDA o : o.status = status)

(* orders.sort((a, b) => new Date(b.created_at) - new Date(a.created_at)): *)
(* a stable sort, later created_at first.                                  *)
RECURSIVE insertByCreatedAt(_, _)
insertByCreatedAt(sorted, o) ==
  IF sorted = <<>> THEN <<o>>
  ELSE IF Head(sorted).created_at >= o.created_at
    THEN <<Head(sorted)>> \o insertByCreatedAt(Tail(sorted), o)
    ELSE <<o>> \o sorted

sortByCreatedAtNot(orders) == orders

RECURSIVE sortByCreatedAt(_)
sortByCreatedAt(orders) ==
  IF orders = <<>> THEN <<>>
  ELSE insertByCreatedAt(sortByCreatedAt(SubSeq(orders, 1, Len(orders) - 1)),
                         orders[Len(orders)])

(* orders.slice(start, end), start and end not negative.                   *)
slice(arr, start, end) ==
  SubSeq(arr, start + 1, IF end < Len(arr) THEN end ELSE Len(arr))

formattedOrder(order) ==
  [id |-> order.id, email |-> order.email, code |-> order.code,
   status |-> order.status, amount |-> order.amount,
   items_count |-> Len(order.cart), created_at |-> order.created_at,
   updated_at |-> order.updated_at, admin_comment |-> order.admin_comment]

AdminOrders(s) ==
  /\ Free(s)
  /\ \E query \in AdminOrdersQueries :
       IF ~verifyApiSecret(query)
         THEN Reject(s, "admin_orders", query, 403, "UNAUTHORIZED")
         ELSE BeginRead(s, "admin_orders", query, <<>>)

(* The read completed.  Without a status filter `orders` is db.data.orders *)
(* itself, and sort() sorts that array in place.                           *)
AdminOrdersRead(s) ==
  /\ reqs[s].kind = "admin_orders" /\ reqs[s].pc = "read"
  /\ LET query     == reqs[s].body
         db        == reqs[s].img
         filtered  == IF Has(query, "status")
                        THEN filterByStatus(db.orders, query.status)
                        ELSE db.orders
         orders    == sortByCreatedAt(filtered)
         total     == Len(orders)
         start     == queryOffset(query)
         end       == start + queryLimit(query)
         paginated == slice(orders, start, end)
     IN  /\ data' = IF Has(query, "status") THEN db
                    ELSE [db EXCEPT !.orders = orders]
         /\ reqs' = [reqs EXCEPT
               ![s].pc = "done", ![s].img = NoDb,
               ![s].loc = [read |-> db],
               ![s].resp =
                 [http |-> 200, success |-> TRUE,
                  orders |-> [i \in DOMAIN paginated |-> formattedOrder(paginated[i])],
                  total |-> total, has_more |-> end < total]]
  /\ UNCHANGED <<CONFIG, quota, now, file, writeQ, gateway, started>>

(* ------------------------------ behaviours ----------------------------- *)
Next ==
  \/ Tick
  \/ \E s \in Slots : SubmitEmail(s)
  \/ \E s \in Slots : SubmitEmailRead(s)
  \/ \E s \in Slots : SubmitEmailWritten(s)
  \/ \E s \in Slots : SubmitCode(s)
  \/ \E s \in Slots : SubmitCodeRead(s)
  \/ \E s \in Slots : SubmitCodeWritten(s)
  \/ \E s \in Slots : NotifyDone(s)
  \/ \E s \in Slots : StatusUpdate(s)
  \/ \E s \in Slots : StatusUpdateRead(s)
  \/ \E s \in Slots : StatusUpdateWritten(s)
  \/ \E s \in Slots : OrderStatusQuery(s)
  \/ \E s \in Slots : OrderStatusRead(s)
  \/ \E s \in Slots : AddProduct(s)
  \/ \E s \in Slots : AddProductRead(s)
  \/ \E s \in Slots : DeleteProduct(s)
  \/ \E s \in Slots : DeleteProductRead(s)
  \/ \E s \in Slots : ProductWritten(s)
  \/ \E s \in Slots : CreatePayment(s)
  \/ \E s \in Slots : CreatePaymentRead(s)
  \/ \E s \in Slots : CreatePaymentWritten(s)
  \/ \E s \in Slots : GatewayReply(s)
  \/ \E s \in Slots : Webhook(s)
  \/ \E s \in Slots : WebhookRead(s)
  \/ \E s \in Slots : WebhookWritten(s)
  \/ \E s \in Slots : AdminOrders(s)
  \/ \E s \in Slots : AdminOrdersRead(s)

Spec == Init /\ [][Next]_vars

(* The storefront's payment traffic alone: clients initiating payments     *)
(* while the operator edits the catalog.                                   *)
NextPayment ==
  \/ Tick
  \/ \E s \in Slots : CreatePayment(s)
  \/ \E s \in Slots : CreatePaymentRead(s)
  \/ \E s \in Slots : CreatePaymentWritten(s)
  \/ \E s \in Slots : GatewayReply(s)
  \/ \E s \in Slots : AddProduct(s)
  \/ \E s \in Slots : AddProductRead(s)
  \/ \E s \in Slots : DeleteProduct(s)
  \/ \E s \in Slots : DeleteProductRead(s)
  \/ \E s \in Slots : ProductWritten(s)

InitPayment == Started({<<>>, <<OrderCreated>>}, {EnvComplete}, MaxRequests)

SpecPayment == InitPayment /\ [][NextPayment]_vars

(* The same traffic on every deployment with a gateway credential missing  *)
(* that gets past validateConfig() and listens.                            *)
InitUnconfigured ==
  Started({<<>>, <<OrderCreated>>},
          {env \in {EnvNoShopId, EnvShopIdZero, EnvNoPassword} : validateConfig(env)},
          MaxRequests)

SpecUnconfigured == InitUnconfigured /\ [][NextPayment]_vars

(* Payments of clients that send any quantities.                           *)
NextAnyQuantity ==
  \/ Tick
  \/ \E s \in Slots : CreatePaymentAnyQuantity(s)
  \/ \E s \in Slots : CreatePaymentRead(s)
  \/ \E s \in Slots : CreatePaymentWritten(s)
  \/ \E s \in Slots : GatewayReply(s)

SpecAnyQuantity == InitPayment /\ [][NextAnyQuantity]_vars

(* The operator listing orders while customers submit codes, on a store    *)
(* holding up to three orders created at different times.                  *)
OrderLater == Order(<<"duck", 1, 0>>, NoEmail, Cart_mixed, 200, "created", 1, "card")

AdminStores ==
  { <<>>, <<OrderPendingEmail>>, <<OrderPendingEmail, OrderLater>>,
    <<OrderLater, OrderPendingEmail>>,
    <<OrderCreated, OrderPendingEmail, OrderLater>>,
    <<OrderPendingEmail, OrderLater, OrderCreated>> }

NextAdmin ==
  \/ Tick
  \/ \E s \in Slots : AdminOrders(s)
  \/ \E s \in Slots : AdminOrdersRead(s)
  \/ \E s \in Slots : SubmitCode(s)
  \/ \E s \in Slots : SubmitCodeRead(s)
  \/ \E s \in Slots : SubmitCodeWritten(s)
  \/ \E s \in Slots : NotifyDone(s)

InitAdmin == Started(AdminStores, {EnvComplete}, MaxRequests)

SpecAdmin == InitAdmin /\ [][NextAdmin]_vars

(* The e-mail / code exchange alone.                                       *)
NextCode ==
  \/ Tick
  \/ \E s \in Slots : SubmitEmail(s)
  \/ \E s \in Slots : SubmitEmailRead(s)
  \/ \E s \in Slots : SubmitEmailWritten(s)
  \/ \E s \in Slots : SubmitCode(s)
  \/ \E s \in Slots : SubmitCodeRead(s)
  \/ \E s \in Slots : SubmitCodeWritten(s)
  \/ \E s \in Slots : NotifyDone(s)

InitCode ==
  Started({<<OrderCreated>>, <<OrderPendingEmail>>, <<OrderCompleted>>},
          {EnvComplete}, MaxRequests)

SpecCode == InitCode /\ [][NextCode]_vars

(* The same exchange on orders the operator has completed or rejected.     *)
OrderRejected ==
  [OrderPendingCode EXCEPT !.code = "654321", !.status = "rejected",
                           !.rejected_at = 0]

InitTerminal ==
  Started({<<OrderCompleted>>, <<OrderRejected>>}, {EnvComplete}, MaxRequests)

SpecTerminal == InitTerminal /\ [][NextCode]_vars

(* The two routes that compute an amount, create-payment and submit-email, *)
(* together with the other routes that write an order.                     *)
NextAmount ==
  \/ \E s \in Slots : SubmitEmail(s)
  \/ \E s \in Slots : SubmitEmailRead(s)
  \/ \E s \in Slots : SubmitEmailWritten(s)
  \/ \E s \in Slots : NotifyDone(s)
  \/ \E s \in Slots : CreatePayment(s)
  \/ \E s \in Slots : CreatePaymentRead(s)
  \/ \E s \in Slots : CreatePaymentWritten(s)
  \/ \E s \in Slots : GatewayReply(s)
  \/ \E s \in Slots : SubmitCode(s)
  \/ \E s \in Slots : SubmitCodeRead(s)
  \/ \E s \in Slots : SubmitCodeWritten(s)
  \/ \E s \in Slots : StatusUpdate(s)
  \/ \E s \in Slots : StatusUpdateRead(s)
  \/ \E s \in Slots : StatusUpdateWritten(s)
  \/ \E s \in Slots : Webhook(s)
  \/ \E s \in Slots : WebhookRead(s)
  \/ \E s \in Slots : WebhookWritten(s)

InitAmount == Started({<<>>, <<OrderCreated>>}, {EnvComplete}, MaxRequests)

SpecAmount == InitAmount /\ [][NextAmount]_vars

(* The same exchange on a deployment with and one without BOT_URL.         *)
InitNotify ==
  Started({<<OrderCreated>>, <<OrderPendingEmail>>}, {EnvComplete, EnvNoBot},
          MaxRequests)

SpecNotify == InitNotify /\ [][NextCode]_vars

(* The same exchange on a new, empty store, with one more request: a       *)
(* handler can still be waiting for its db.read() while an order is        *)
(* created and its code submitted.                                         *)
InitBusy == Started({<<>>}, {EnvComplete}, MaxRequests + 1)

SpecBusy == InitBusy /\ [][NextCode]_vars

(* The gateway's notifications and the operator's decisions alone.         *)
NextWebhook ==
  \/ Tick
  \/ \E s \in Slots : Webhook(s)
  \/ \E s \in Slots : WebhookRead(s)
  \/ \E s \in Slots : WebhookWritten(s)
  \/ \E s \in Slots : StatusUpdate(s)
  \/ \E s \in Slots : StatusUpdateRead(s)
  \/ \E s \in Slots : StatusUpdateWritten(s)

InitWebhook ==
  Started({<<>>, <<OrderPendingEmail>>, <<OrderPendingCode>>}, {EnvComplete},
          MaxRequests)

SpecWebhook == InitWebhook /\ [][NextWebhook]_vars

(* ======================= the in-memory revision ======================== *)
(* The first revision keeps products and orders in two module-level arrays *)
(* and has no file: `data` holds the arrays, db.json is not used.  Its     *)
(* handlers change the arrays without an await in between.                 *)
MemProducts ==
  <<[id |-> "prod_001", price |-> 100], [id |-> "prod_002", price |-> 200]>>

MemItems_001x2 == <<[productId |-> "prod_001", quantity |-> 2]>>
MemItems_nope  == <<[productId |-> "nope", quantity |-> 1]>>

MemCreateBodies ==
  {[products |-> MemItems_001x2, secret |-> k] : k \in Secrets}
  \cup {[products |-> c, secret |-> "s3cret"] : c \in {MemItems_nope, <<>>}}
  \cup {[secret |-> "s3cret"], [products |-> MemItems_001x2]}

(* An id generateOrderId() never returns: the clock starts at 1.           *)
UnknownOrderId == <<"ORD", 0, 0>>

PaymentStatuses == {"success", "failed", "refunded"}

MemWebhookBodies ==
  {[order_id |-> id, status |-> st] :
       id \in {<<"ORD", 1, 0>>, <<"ORD", 2, 1>>, UnknownOrderId},
       st \in PaymentStatuses}
  \cup {[order_id |-> <<"ORD", 1, 0>>], [status |-> "success"]}

MemOrder(orderId, items, totalAmount, t) ==
  [ orderId |-> orderId, items |-> items, totalAmount |-> totalAmount,
    status |-> "pending", createdAt |-> t, updatedAt |-> NoTime,
    paymentId |-> Undefined, paymentUrl |-> Undefined ]

(* orders.findIndex(o => o.orderId === id), 0 when there is none (JS: -1). *)
findOrderIndex(arr, id) ==
  IF \E i \in 1..Len(arr) : arr[i].orderId = id
    THEN CHOOSE i \in 1..Len(arr) :
           arr[i].orderId = id /\ \A j \in 1..(i - 1) : arr[j].orderId # id
    ELSE 0

(* The loop over the requested products: the sum of price * quantity.      *)
RECURSIVE MemTotal(_, _, _)
MemTotal(products, items, i) ==
  IF i > Len(items) THEN 0
  ELSE products[findIndex(products, items[i].productId)].price * items[i].quantity
       + MemTotal(products, items, i + 1)

MemAnswer(s, kind, body, resp) ==
  /\ reqs' = [reqs EXCEPT ![s] = Answer(s, kind, body, <<>>, resp)]
  /\ started' = started + 1

(* The first revision's POST /api/create-payment up to its fetch().        *)
MemCreatePayment(s) ==
  /\ Free(s)
  /\ \E body \in MemCreateBodies : \E r \in RandomHex :
       IF ~verifyApiSecret(body)
         THEN /\ MemAnswer(s, "mem_create_payment", body, [http |-> 403, success |-> FALSE])
              /\ UNCHANGED <<data, gateway>>
       ELSE IF ~Has(body, "products") \/ Len(body.products) = 0
         THEN /\ MemAnswer(s, "mem_create_payment", body, [http |-> 400, success |-> FALSE])
              /\ UNCHANGED <<data, gateway>>
       ELSE IF \E i \in 1..Len(body.products) :
                  findIndex(data.products, body.products[i].productId) = 0
         THEN /\ MemAnswer(s, "mem_create_payment", body, [http |-> 400, success |-> FALSE])
              /\ UNCHANGED <<data, gateway>>
       ELSE LET totalAmount == MemTotal(data.products, body.products, 1)
                \* `ORD${Date.now()}${crypto.randomInt(1000, 9999)}`
                orderId == <<"ORD", now, r>>
            IN  /\ data' = [data EXCEPT !.orders =
                              Append(@, MemOrder(orderId, body.products, totalAmount, now))]
                /\ gateway' = Append(gateway, [shop_id |-> CONFIG.SHOP_ID,
                                               amount |-> totalAmount,
                                               order_id |-> orderId])
                /\ reqs' = [reqs EXCEPT ![s] =
                              [kind |-> "mem_create_payment", pc |-> "gateway",
                               body |-> body, img |-> NoDb,
                               loc |-> [orderId |-> orderId, totalAmount |-> totalAmount],
                               resp |-> NoResp]]
                /\ started' = started + 1
  /\ UNCHANGED <<CONFIG, quota, now, file, writeQ>>

MemGatewayReplies == {"success", "refused", "throws"}

MemPaid(s) ==
  [http |-> 200, success |-> TRUE, orderId |-> reqs[s].loc.orderId,
   paymentUrl |-> "pay", amount |-> reqs[s].loc.totalAmount]

(* fetch() and paymentResponse.json() settled.                             *)
MemGatewayReply(s) ==
  /\ reqs[s].kind = "mem_create_payment" /\ reqs[s].pc = "gateway"
  /\ \E reply \in MemGatewayReplies :
       CASE reply = "throws" ->
              /\ reqs' = [reqs EXCEPT ![s].pc = "done",
                                      ![s].resp = [http |-> 500, success |-> FALSE]]
              /\ data' = data
         [] reply = "refused" ->
              /\ reqs' = [reqs EXCEPT ![s].pc = "done",
                                      ![s].resp = [http |-> 400, success |-> FALSE]]
              /\ data' = data
         [] reply = "success" ->
              LET orderIndex == findOrderIndex(data.orders, reqs[s].loc.orderId)
              IN  /\ data' = IF orderIndex # 0
                               THEN [data EXCEPT !.orders[orderIndex].paymentId = "inv",
                                                 !.orders[orderIndex].paymentUrl = "pay"]
                               ELSE data
                  /\ reqs' = IF CONFIG.BOT_URL = Undefined
                               THEN [reqs EXCEPT ![s].pc = "done", ![s].resp = MemPaid(s)]
                               ELSE [reqs EXCEPT ![s].pc = "notify",
                                                 ![s].loc = [ok |-> MemPaid(s)]]
  /\ UNCHANGED <<CONFIG, quota, now, file, writeQ, gateway, started>>

(* The status assignments of POST /api/payment-webhook.                    *)
MemWebhookStoreAnyStatus(orders, orderIndex, status, t) ==
  [orders EXCEPT ![orderIndex].status = IF status = "success" THEN "paid" ELSE status,
                 ![orderIndex].updatedAt = t]

MemWebhookStore(orders, orderIndex, status, t) ==
  IF status = "success"
    THEN [orders EXCEPT ![orderIndex].status = "paid", ![orderIndex].updatedAt = t]
  ELSE IF status = "failed"
    THEN [orders EXCEPT ![orderIndex].status = "failed", ![orderIndex].updatedAt = t]
  ELSE orders

MemWebhookOk == [http |-> 200, success |-> TRUE]

(* POST /api/payment-webhook; the route has no verifyApiSecret.            *)
PaymentWebhook(s) ==
  /\ Free(s)
  /\ \E body \in MemWebhookBodies :
       LET order_id == IF Has(body, "order_id") THEN body.order_id ELSE Undefined
           status == IF Has(body, "status") THEN body.status ELSE Undefined
           orderIndex == findOrderIndex(data.orders, order_id)
       IN  IF orderIndex = 0
             THEN /\ MemAnswer(s, "payment_webhook", body, [http |-> 404, success |-> FALSE])
                  /\ data' = data
             ELSE /\ data' = [data EXCEPT !.orders =
                                MemWebhookStore(@, orderIndex, status, now)]
                  /\ started' = started + 1
                  /\ reqs' = [reqs EXCEPT ![s] =
                       IF status = "success" /\ CONFIG.BOT_URL # Undefined
                         THEN [kind |-> "payment_webhook", pc |-> "notify",
                               body |-> body, img |-> NoDb,
                               loc |-> [ok |-> MemWebhookOk], resp |-> NoResp]
                         ELSE Answer(s, "payment_webhook", body, <<>>, MemWebhookOk)]
  /\ UNCHANGED <<CONFIG, quota, now, file, writeQ, gateway>>

(* sendTelegramNotification() settled; it swallows every failure.          *)
MemNotified(s) ==
  /\ reqs[s].kind \in {"mem_create_payment", "payment_webhook"}
  /\ reqs[s].pc = "notify"
  /\ reqs' = [reqs EXCEPT ![s].pc = "done", ![s].resp = reqs[s].loc.ok]
  /\ UNCHANGED <<CONFIG, quota, now, file, data, writeQ, gateway, started>>

NextMem ==
  \/ Tick
  \/ \E s \in Slots : MemCreatePayment(s)
  \/ \E s \in Slots : MemGatewayReply(s)
  \/ \E s \in Slots : PaymentWebhook(s)
  \/ \E s \in Slots : MemNotified(s)

(* `let orders = []`: the process starts without orders.  One request more *)
(* than elsewhere, for an order to be created, paid and failed.            *)
InitMem ==
  /\ CONFIG \in {EnvComplete, EnvNoBot}
  /\ quota = MaxRequests + 1
  /\ now = 1
  /\ file = NoDb
  /\ data = [products |-> MemProducts, orders |-> <<>>]
  /\ writeQ = <<>>
  /\ reqs = [s \in Slots |-> Idle]
  /\ gateway = <<>>
  /\ started = 0

SpecMem == InitMem /\ [][NextMem]_vars

(* ============================== properties ============================= *)
Done(s, kind) == reqs[s].kind = kind /\ reqs[s].pc = "done"

Failed(s, kind, c) ==
  Done(s, kind) /\ Has(reqs[s].resp, "code") /\ reqs[s].resp.code = c

Succeeded(s, kind) == Done(s, kind) /\ reqs[s].resp.http = 200

(* This step accepts a request of the given kind in slot s.                *)
Arrives(s, kind) ==
  Free(s) /\ started' = started + 1 /\ reqs'[s].kind = kind

(* This step completes the db.read() of the handler of that kind in s.     *)
ReadCompletes(s, kind) ==
  reqs[s].kind = kind /\ reqs[s].pc = "read" /\ reqs'[s].pc # "read"

AnswersNow(s, c) ==
  reqs'[s].pc = "done" /\ Has(reqs'[s].resp, "code") /\ reqs'[s].resp.code = c

(* C1: a submit-code whose email differs from the email of the order it    *)
(* finds (an order without email included) is answered EMAIL_MISMATCH, and *)
(* neither db.json nor the order as read is changed and nothing is written.*)
C1_EmailMismatchRejected ==
  [][\A s \in Slots :
       ReadCompletes(s, "submit_code") =>
         LET db == reqs[s].img
             i  == findIndex(db.orders, reqs[s].body.order_id)
         IN  (i # 0 /\ db.orders[i].email # reqs[s].body.email) =>
               /\ AnswersNow(s, "EMAIL_MISMATCH")
               /\ file' = file /\ writeQ' = writeQ
               /\ data' = db]_vars

C1_Witness ==
  \E s \in Slots :
     /\ Failed(s, "submit_code", "EMAIL_MISMATCH")
     /\ \E i \in 1..Len(file.orders) :
          /\ file.orders[i].id = reqs[s].body.order_id
          /\ file.orders[i].email # reqs[s].body.email
          /\ file.orders[i].code = Undefined

(* C2: a webhook whose signature does not verify is answered 403 and never *)
(* writes: only a webhook with a valid signature changes an order.         *)
C2_InvalidSignatureRejected ==
  \A s \in Slots :
     (reqs[s].kind = "webhook" /\ reqs[s].body.signature # "valid") =>
        /\ reqs[s].pc # "write"
        /\ reqs[s].pc = "done" => reqs[s].resp.http = 403

(* C3: when a submit-code and a webhook for the same order have both       *)
(* answered after writing, db.json holds the code, status pending_code,    *)
(* the payment status and (on success) paid_at.                            *)
C3_BothUpdatesKept ==
  \A s, t \in Slots :
     ( /\ Succeeded(s, "submit_code")
       /\ Done(t, "webhook") /\ Has(reqs[t].loc, "orderIndex")
       /\ reqs[t].body.order_id = reqs[s].body.order_id ) =>
        LET i == findIndex(file.orders, reqs[s].body.order_id)
        IN  /\ i # 0
            /\ file.orders[i].code = reqs[s].body.code
            /\ file.orders[i].status = "pending_code"
            /\ file.orders[i].payment_status = reqs[t].body.status
            /\ reqs[t].body.status = "success" => file.orders[i].paid_at # NoTime

(* C4: an order recorded by a request that answered success (submit-email, *)
(* create-payment) is in db.json from then on.                             *)
C4_RecordedOrderKept ==
  \A s \in Slots :
     /\ Succeeded(s, "submit_email") =>
          findIndex(file.orders, reqs[s].body.order_id) # 0
     /\ Succeeded(s, "create_payment") =>
          findIndex(file.orders, reqs[s].loc.order_id) # 0

(* C5: an admin status update makes an order completed or rejected only    *)
(* from pending_code.                                                      *)
C5_CompletedOnlyFromPendingCode ==
  [][\A s \in Slots :
       ReadCompletes(s, "status_update") =>
         LET db == reqs[s].img
             i  == findIndex(db.orders, reqs[s].body.order_id)
         IN  ( /\ i # 0
               /\ db.orders[i].status # "pending_code" ) =>
             data'.orders[i].status \notin {"completed", "rejected"}]_vars

(* C6: submit-email changes an existing order only when its status is      *)
(* created or pending_email.                                               *)
C6_SubmitEmailOnlyBeforeCode ==
  [][\A s \in Slots :
       ReadCompletes(s, "submit_email") =>
         LET db == reqs[s].img
             i  == findIndex(db.orders, reqs[s].body.order_id)
         IN  ( /\ i # 0
               /\ db.orders[i].status \notin {"created", "pending_email"} ) =>
             data'.orders = db.orders]_vars

(* C7: every stored order has one of the seven statuses.                   *)
OrderStatuses ==
  {"created", "pending_email", "pending_code", "paid", "completed", "rejected",
   "failed"}

C7_StatusInEnum ==
  \A i \in 1..Len(file.orders) : file.orders[i].status \in OrderStatuses

(* C8: when create-payment or submit-email stores an order, its amount is  *)
(* the cart's total at the prices of the catalog as it is at that moment.  *)
C8_AmountFromCurrentCatalog ==
  [][\A s \in Slots :
       ( /\ ReadCompletes(s, "create_payment") \/ ReadCompletes(s, "submit_email")
         /\ reqs'[s].pc = "write" ) =>
         LET id == IF reqs[s].kind = "create_payment"
                     THEN reqs[s].loc.order_id ELSE reqs[s].body.order_id
             i  == IF reqs[s].kind = "create_payment"
                     THEN Len(data'.orders) ELSE findIndex(data'.orders, id)
         IN  data'.orders[i].amount =
               calculateOrderTotal(data'.products, data'.orders[i].cart)]_vars

(* C9: a create-payment whose cart totals 0 is answered EMPTY_CART at once: *)
(* nothing is read, stored or sent to the gateway.                         *)
C9_ZeroCartRejected ==
  [][\A s \in Slots :
       ( /\ Arrives(s, "create_payment")
         /\ Has(reqs'[s].body, "items") /\ Has(reqs'[s].body, "method")
         /\ calculateOrderTotal(data.products, reqs'[s].body.items) = 0 ) =>
         /\ AnswersNow(s, "EMPTY_CART")
         /\ UNCHANGED <<file, data, writeQ, gateway>>]_vars

C9_Witness ==
  \E s \in Slots :
     /\ Failed(s, "create_payment", "EMPTY_CART")
     /\ reqs[s].body.items \in {Cart_zz, Cart_empty}
     /\ gateway = <<>>

(* C10: a create-payment whose total exceeds the cart ceiling is answered  *)
(* CART_LIMIT_EXCEEDED at once: nothing is read, stored or sent.           *)
C10_CartLimitRejected ==
  [][\A s \in Slots :
       ( /\ Arrives(s, "create_payment")
         /\ Has(reqs'[s].body, "items") /\ Has(reqs'[s].body, "method")
         /\ calculateOrderTotal(data.products, reqs'[s].body.items)
              > MAX_CART_TOTAL ) =>
         /\ AnswersNow(s, "CART_LIMIT_EXCEEDED")
         /\ UNCHANGED <<file, data, writeQ, gateway>>]_vars

C10_Witness ==
  \E s \in Slots :
     /\ Failed(s, "create_payment", "CART_LIMIT_EXCEEDED")
     /\ reqs[s].body.items = Cart_c30x60
     /\ gateway = <<>>

(* C11: a submit-email whose email is not of the form local@domain.tld is   *)
(* answered INVALID_EMAIL at once, and one whose cart totals more than the *)
(* cart ceiling at the prices it read is answered CART_LIMIT_EXCEEDED;     *)
(* neither writes: db.json and the write queue stay as they are and        *)
(* db.data is the content read.                                            *)
AtSigns(e) == {k \in 1..Len(e) : e[k] = "@"}

ValidEmailSyntax(e) ==
  /\ Cardinality(AtSigns(e)) = 1
  /\ \A k \in 1..Len(e) : e[k] # " "
  /\ \E a \in AtSigns(e) :
       a > 1 /\ \E d \in (a + 2)..(Len(e) - 1) : e[d] = "."

C11_SubmitEmailRejected ==
  [][\A s \in Slots :
       /\ ( /\ Arrives(s, "submit_email")
            /\ Has(reqs'[s].body, "email") /\ Has(reqs'[s].body, "cart")
            /\ ~ValidEmailSyntax(reqs'[s].body.email) ) =>
            /\ AnswersNow(s, "INVALID_EMAIL")
            /\ UNCHANGED <<file, data, writeQ>>
       /\ ( /\ ReadCompletes(s, "submit_email")
            /\ calculateOrderTotal(reqs[s].img.products, reqs[s].body.cart)
                 > MAX_CART_TOTAL ) =>
            /\ AnswersNow(s, "CART_LIMIT_EXCEEDED")
            /\ file' = file /\ writeQ' = writeQ
            /\ data' = reqs[s].img]_vars

C11_Witness ==
  \E s, t \in Slots :
     /\ Failed(s, "submit_email", "INVALID_EMAIL")
     /\ reqs[s].body.email = Email_bad
     /\ Failed(t, "submit_email", "CART_LIMIT_EXCEEDED")
     /\ reqs[t].body.cart = Cart_c30x60
     /\ file.orders = <<OrderPendingEmail>> /\ writeQ = <<>>

(* C12: a submit-email, submit-code or admin status update whose order id  *)
(* is not in the store as read is answered ORDER_NOT_FOUND and adds no     *)
(* order: the orders stay as read and nothing is written.                  *)
C12_UnknownOrderNotFound ==
  [][\A s \in Slots :
       ( /\ \/ ReadCompletes(s, "submit_email")
            \/ ReadCompletes(s, "submit_code")
            \/ ReadCompletes(s, "status_update")
         /\ findIndex(reqs[s].img.orders, reqs[s].body.order_id) = 0
         /\ reqs[s].kind = "submit_email" =>
              ~exceedsCartLimit(calculateOrderTotal(reqs[s].img.products,
                                                    reqs[s].body.cart)) ) =>
         /\ AnswersNow(s, "ORDER_NOT_FOUND")
         /\ data'.orders = reqs[s].img.orders
         /\ writeQ' = writeQ]_vars

(* C13: no two orders of db.json, and no two orders of db.data, have the   *)
(* same id.                                                                *)
UniqueIds(orders) ==
  \A i, j \in 1..Len(orders) : orders[i].id = orders[j].id => i = j

C13_OrderIdsUnique == UniqueIds(file.orders) /\ UniqueIds(data.orders)

(* C14: when a submit-email or submit-code handler leaves its db.write(),  *)
(* db.json holds the order with the submitted email in pending_email, or   *)
(* with the submitted code in pending_code; only then is the bot called,   *)
(* and not at all without BOT_URL.  The end of the call, whatever its      *)
(* outcome, changes neither db.json nor db.data nor the write queue, and   *)
(* the answer is 200 success with the boolean bot_notified (FALSE when     *)
(* the bot is not configured).                                             *)
TransitionStored(orders, kind, body) ==
  LET i == findIndex(orders, body.order_id)
  IN  /\ i # 0
      /\ orders[i].email = body.email
      /\ kind = "submit_email" =>
           orders[i].status = "pending_email" /\ orders[i].cart = body.cart
      /\ kind = "submit_code" =>
           orders[i].status = "pending_code" /\ orders[i].code = body.code

SuccessWithFlag(resp) ==
  /\ resp.http = 200 /\ resp.success
  /\ Has(resp, "bot_notified") /\ resp.bot_notified \in BOOLEAN

C14_NotifyAfterWrite ==
  [][\A s \in Slots :
       reqs[s].kind \in {"submit_email", "submit_code"} =>
         /\ (reqs[s].pc = "write" /\ reqs'[s].pc # "write") =>
              /\ TransitionStored(file'.orders, reqs[s].kind, reqs[s].body)
              /\ CONFIG.BOT_URL = Undefined =>
                   /\ reqs'[s].pc = "done"
                   /\ reqs'[s].resp.http = 200 => ~reqs'[s].resp.bot_notified
         /\ (reqs[s].pc # "write" /\ reqs'[s].pc = "notify") => reqs[s].pc = "notify"
         /\ (reqs[s].pc = "notify" /\ reqs'[s].pc # "notify") =>
              /\ reqs'[s].pc = "done"
              /\ SuccessWithFlag(reqs'[s].resp)
              /\ UNCHANGED <<file, data, writeQ>>]_vars

C14_Witness ==
  \E s \in Slots :
     /\ Succeeded(s, "submit_code")
     /\ CONFIG.BOT_URL # Undefined
     /\ ~reqs[s].resp.bot_notified
     /\ TransitionStored(file.orders, "submit_code", reqs[s].body)

(* C15: a submit-email or submit-code handler whose db.write() has         *)
(* returned answers 200 success.                                           *)
C15_AnsweredSuccessAfterWrite ==
  [][\A s \in Slots :
       ( /\ reqs[s].kind \in {"submit_email", "submit_code"}
         /\ reqs[s].pc \in {"write", "notify"}
         /\ reqs'[s].pc = "done" ) =>
         reqs'[s].resp.http = 200 /\ reqs'[s].resp.success]_vars

(* C16: the gateway is sent a payment-initiation request only by a        *)
(* create-payment handler leaving its db.write(), one request carrying     *)
(* that handler's order id and amount; the handler's step on the gateway's *)
(* reply sends nothing and ends the handler, with an error answer when the *)
(* call timed out or returned a non-2xx status.  So there are never more   *)
(* requests at the gateway than requests accepted.                         *)
C16_Step ==
  /\ gateway' # gateway =>
       \E s \in Slots :
          /\ reqs[s].kind = "create_payment"
          /\ reqs[s].pc = "write" /\ reqs'[s].pc = "gateway"
          /\ Len(gateway') = Len(gateway) + 1
          /\ SubSeq(gateway', 1, Len(gateway)) = gateway
          /\ gateway'[Len(gateway')].order_id = reqs[s].loc.order_id
          /\ gateway'[Len(gateway')].amount = reqs[s].loc.amountRub
  /\ \A s \in Slots :
       (reqs[s].pc = "gateway" /\ reqs'[s] # reqs[s]) =>
          /\ gateway' = gateway
          /\ reqs'[s].pc = "done"
          /\ reqs'[s].loc.reply \in {"timeout", "non_2xx"} =>
               /\ ~reqs'[s].resp.success
               /\ reqs'[s].resp.http # 200

C16_GatewayCalledOnce == [][C16_Step]_vars /\ [](Len(gateway) <= started)

C16_Witness ==
  \E s \in Slots :
     /\ Failed(s, "create_payment", "TIMEOUT")
     /\ reqs[s].loc.reply = "timeout"
     /\ started = 1
     /\ Len(gateway) = 1 /\ gateway[1].order_id = reqs[s].loc.order_id

(* C17: a webhook whose order id is not among the orders read is answered *)
(* 200 and writes nothing: db.json and the write queue stay as they are    *)
(* and the orders of db.data are the orders read.                          *)
C17_UnknownWebhookAcknowledged ==
  [][\A s \in Slots :
       ( /\ ReadCompletes(s, "webhook")
         /\ findIndex(reqs[s].img.orders, reqs[s].body.order_id) = 0 ) =>
         /\ reqs'[s].pc = "done"
         /\ reqs'[s].resp.http = 200 /\ reqs'[s].resp.success
         /\ file' = file /\ writeQ' = writeQ
         /\ data'.orders = reqs[s].img.orders]_vars

C17_Witness ==
  \E s \in Slots :
     /\ Succeeded(s, "webhook")
     /\ Has(reqs[s].body, "order_id") /\ reqs[s].body.order_id = DuckId
     /\ file.orders = <<OrderPendingCode>>
     /\ data = file /\ writeQ = <<>>

(* C18: once an order of db.json has a completed_at, a rejected_at or a    *)
(* paid_at, the order keeps that value.                                    *)
KeepsOnceSet(o, p) ==
  /\ o.completed_at # NoTime => p.completed_at = o.completed_at
  /\ o.rejected_at # NoTime => p.rejected_at = o.rejected_at
  /\ o.paid_at # NoTime => p.paid_at = o.paid_at

C18_TimestampsSetOnce ==
  [][\A i \in 1..Len(file.orders) :
       LET j == findIndex(file'.orders, file.orders[i].id)
       IN  j # 0 => KeepsOnceSet(file.orders[i], file'.orders[j])]_vars

(* C19: the updated_at of an order of db.json never decreases and is never *)
(* earlier than its created_at.                                            *)
C19_UpdatedAtMonotonic ==
  [][\A i \in 1..Len(file.orders) :
       LET j == findIndex(file'.orders, file.orders[i].id)
       IN  j # 0 =>
             /\ file'.orders[j].updated_at >= file.orders[i].updated_at
             /\ file'.orders[j].updated_at >= file'.orders[j].created_at]_vars

(* C20: as long as db.json holds an order with a given id, that order's    *)
(* created_at stays the same.                                              *)
C20_CreatedAtKept ==
  [][\A i \in 1..Len(file.orders) :
       LET j == findIndex(file'.orders, file.orders[i].id)
       IN  j # 0 => file'.orders[j].created_at = file.orders[i].created_at]_vars

(* C21: when the db.write() of a submit-email lands, db.json holds exactly *)
(* one order with the submitted id, in pending_email with the submitted    *)
(* email and cart and the amount answered; if db.json already held that    *)
(* order with this email and cart, its amount is the same as before.  Two  *)
(* submissions of one body are answered the same amount.  (The catalog     *)
(* does not change in this specification.)                                 *)
WithId(orders, id) == {i \in 1..Len(orders) : orders[i].id = id}

C21_Step ==
  \A s \in Slots :
     (reqs[s].kind = "submit_email" /\ reqs[s].pc = "write" /\ reqs'[s].pc # "write") =>
        LET body == reqs[s].body
            was  == WithId(file.orders, body.order_id)
            is   == WithId(file'.orders, body.order_id)
        IN  /\ Cardinality(is) = 1
            /\ \A j \in is :
                 /\ file'.orders[j].status = "pending_email"
                 /\ file'.orders[j].email = body.email
                 /\ file'.orders[j].cart = body.cart
                 /\ file'.orders[j].amount = reqs[s].loc.amount
                 /\ \A i \in was :
                      ( /\ file.orders[i].email = body.email
                        /\ file.orders[i].cart = body.cart ) =>
                      file'.orders[j].amount = file.orders[i].amount

C21_SameAmount ==
  \A s, t \in Slots :
     ( /\ Succeeded(s, "submit_email") /\ Succeeded(t, "submit_email")
       /\ reqs[s].body = reqs[t].body ) =>
     reqs[s].resp.amount = reqs[t].resp.amount

C21_ResubmissionIdempotent == [][C21_Step]_vars /\ []C21_SameAmount

C21_Witness ==
  \E s, t \in Slots :
     /\ s # t
     /\ Succeeded(s, "submit_email") /\ Succeeded(t, "submit_email")
     /\ reqs[s].body = reqs[t].body
     /\ reqs[s].resp.amount = 400
     /\ Cardinality(WithId(file.orders, reqs[s].body.order_id)) = 1
     /\ Len(file.orders) = 1 /\ file.orders[1].status = "pending_email"

(* C22: once an order of db.json has an email, the order keeps that email. *)
C22_EmailSetOnce ==
  [][\A i \in 1..Len(file.orders) :
       LET j == findIndex(file'.orders, file.orders[i].id)
       IN  (file.orders[i].email # NoEmail /\ j # 0) =>
             file'.orders[j].email = file.orders[i].email]_vars

(* C23: every order of db.json and of db.data that has a code has an       *)
(* email.                                                                  *)
CodeImpliesEmail(orders) ==
  \A i \in 1..Len(orders) :
     orders[i].code # Undefined => orders[i].email # NoEmail

C23_CodeOnlyAfterEmail ==
  CodeImpliesEmail(file.orders) /\ CodeImpliesEmail(data.orders)

C23_Witness ==
  \E s \in Slots :
     /\ Failed(s, "submit_code", "EMAIL_MISMATCH")
     /\ \E i \in 1..Len(file.orders) :
          /\ file.orders[i].id = reqs[s].body.order_id
          /\ file.orders[i].status = "created"
          /\ file.orders[i].email = NoEmail
     /\ data = file

(* C24: an admin status update without secret, or with a secret other than *)
(* CONFIG.API_SECRET, is answered 403 UNAUTHORIZED at once: nothing is     *)
(* read or written, db.json and db.data stay as they are.                  *)
C24_UnauthorizedUpdateRejected ==
  [][\A s \in Slots :
       ( /\ Arrives(s, "status_update")
         /\ \/ ~Has(reqs'[s].body, "secret")
            \/ reqs'[s].body.secret # CONFIG.API_SECRET ) =>
         /\ AnswersNow(s, "UNAUTHORIZED")
         /\ reqs'[s].resp.http = 403
         /\ UNCHANGED <<file, data, writeQ>>]_vars

C24_Witness ==
  \E s \in Slots :
     /\ Failed(s, "status_update", "UNAUTHORIZED")
     /\ Has(reqs[s].body, "secret") /\ reqs[s].body.secret = "wrong"
     /\ reqs[s].body.order_id = WebId
     /\ file.orders = <<OrderPendingCode>> /\ data = file /\ writeQ = <<>>

(* C25: the string hashed for a payload is the concatenation, without      *)
(* separators or key names, of the string forms of the values of the       *)
(* payload with `password` set to the secret and without `signature` and   *)
(* `metadata`, the keys in increasing byte order (null as the empty        *)
(* string); every permutation of the payload's fields gives the same       *)
(* string; for {order_id: "x", amount: 100} and secret "s" it is "100xs".  *)
Signed(s) == reqs[s].kind = "sign" /\ reqs[s].pc = "done"

ByteLess(a, b) ==
  LET common == {k \in 1..Len(a) : k <= Len(b) /\ \A m \in 1..k : a[m] = b[m]}
      n      == Cardinality(common)
  IN  IF n = Len(a) THEN n < Len(b)
      ELSE n < Len(b) /\ CodeUnit(a[n + 1]) < CodeUnit(b[n + 1])

WorkingKeys(payload) ==
  (ObjectKeys(payload) \cup {Key_password}) \ {Key_signature, Key_metadata}

WorkingValue(payload, secret, key) ==
  IF key = Key_password THEN Str(secret) ELSE Get(payload, key)

StringForm(value) ==
  IF value.t = "null" THEN <<>>
  ELSE IF value.t = "number" THEN NumberToString(value.v) ELSE value.v

RECURSIVE Concat(_)
Concat(ws) == IF ws = <<>> THEN <<>> ELSE Head(ws) \o Concat(Tail(ws))

IsCanonical(w, payload, secret) ==
  \E ks \in [1..Cardinality(WorkingKeys(payload)) -> WorkingKeys(payload)] :
     /\ \A i, j \in DOMAIN ks : i < j => ByteLess(ks[i], ks[j])
     /\ w = Concat([i \in DOMAIN ks |->
                      StringForm(WorkingValue(payload, secret, ks[i]))])

FieldOrders(payload) ==
  {q \in [DOMAIN payload -> {payload[i] : i \in DOMAIN payload}] :
     \A i \in DOMAIN payload : \E j \in DOMAIN q : q[j] = payload[i]}

Example_x100 == <<<<Key_order_id, Str(<<"x">>)>>, <<Key_amount, Num(100)>>>>

C25_SignedString ==
  \A s \in Slots :
     Signed(s) =>
       LET payload == reqs[s].body
           secret  == CONFIG.BILEE_PASSWORD
           w       == reqs[s].loc.valuesString
       IN  /\ IsCanonical(w, payload, secret)
           /\ \A q \in FieldOrders(payload) : valuesString(q, secret) = w
           /\ (payload = Example_x100 /\ secret = <<"s">>) =>
                w = <<"1", "0", "0", "x", "s">>

C25_Witness ==
  \E s \in Slots :
     /\ Signed(s)
     /\ reqs[s].body = Example_x100
     /\ CONFIG.BILEE_PASSWORD = <<"s">>
     /\ reqs[s].loc.valuesString = <<"1", "0", "0", "x", "s">>

(* C26: setting, changing or removing the `signature` or the `metadata`    *)
(* field of a payload, or its `password` field, leaves the string hashed   *)
(* as it is; giving any other field a value with another string form       *)
(* changes it.                                                             *)
Remove(payload, key) == SelectSeq(payload, LAMBDA kv : kv[1] # key)

C26_ExcludesExactly ==
  \A s \in Slots :
     Signed(s) =>
       LET payload == reqs[s].body
           secret  == CONFIG.BILEE_PASSWORD
           w       == reqs[s].loc.valuesString
       IN  /\ \A key \in {Key_signature, Key_metadata, Key_password} :
                /\ valuesString(Remove(payload, key), secret) = w
                /\ \A v \in SignValues :
                     valuesString(Put(payload, key, v), secret) = w
           /\ \A i \in DOMAIN payload : \A v \in SignValues :
                ( /\ payload[i][1] \notin {Key_signature, Key_metadata, Key_password}
                  /\ StringForm(v) # StringForm(payload[i][2]) ) =>
                valuesString(Put(payload, payload[i][1], v), secret) # w

C26_Witness ==
  \E s \in Slots :
     /\ Signed(s)
     /\ ObjectKeys(reqs[s].body) = {Key_metadata, Key_signature, Key_amount}
     /\ Get(reqs[s].body, Key_amount) = Num(100)
     /\ Get(reqs[s].body, Key_metadata) = Str(<<"x">>)
     /\ CONFIG.BILEE_PASSWORD = <<"p", "w">>
     /\ reqs[s].loc.valuesString = <<"1", "0", "0", "p", "w">>

(* verify(payload, providedSignature, secret): the signature recomputed    *)
(* over the payload without its `signature` field equals the one provided. *)
verify(payload, providedSignature, secret) ==
  generateSignatureNode(Remove(payload, Key_signature), secret) = providedSignature

SignSecrets == {EnvComplete.BILEE_PASSWORD, EnvSecret_s.BILEE_PASSWORD}

SignedFields(payload) ==
  {i \in DOMAIN payload :
     payload[i][1] \notin {Key_signature, Key_metadata, Key_password}}

(* The signature verifies, and no longer does once the secret or one       *)
(* signed field's value is changed to a value of `others(i)`.              *)
RoundTrip(payload, secret, others(_)) ==
  LET signature == generateSignatureNode(payload, secret)
  IN  /\ verify(payload, signature, secret)
      /\ \A other \in SignSecrets \ {secret} : ~verify(payload, signature, other)
      /\ \A i \in SignedFields(payload) : \A v \in others(i) :
           ~verify(Put(payload, payload[i][1], v), signature, secret)

(* C27 as stated: the signature of a payload verifies; it stops verifying  *)
(* when the secret or the value of any one signed field is changed.        *)
C27_AnyChangeDetected ==
  \A s \in Slots :
     Signed(s) =>
       LET payload == reqs[s].body
       IN  RoundTrip(payload, CONFIG.BILEE_PASSWORD,
                     LAMBDA i : SignValues \ {payload[i][2]})

(* C27, amended: the signature of a payload verifies, and the signature    *)
(* attached to the payload verifies against it; it stops verifying when    *)
(* the secret is changed or one signed field gets a value with another     *)
(* string form.                                                            *)
C27_RoundTrip ==
  \A s \in Slots :
     Signed(s) =>
       LET payload == reqs[s].body
           secret  == CONFIG.BILEE_PASSWORD
           sent    == reqs[s].resp.payload
       IN  /\ RoundTrip(payload, secret,
                        LAMBDA i : {v \in SignValues :
                                      StringForm(v) # StringForm(payload[i][2])})
           /\ verify(sent, Get(sent, Key_signature).v, secret)
           /\ Remove(sent, Key_signature) = Remove(payload, Key_signature)

C27_Witness ==
  \E s \in Slots :
     /\ Signed(s)
     /\ reqs[s].body = Example_x100
     /\ verify(reqs[s].resp.payload,
               Get(reqs[s].resp.payload, Key_signature).v, CONFIG.BILEE_PASSWORD)
     /\ ~verify(Put(reqs[s].resp.payload, Key_amount, Str(<<"x">>)),
                Get(reqs[s].resp.payload, Key_signature).v, CONFIG.BILEE_PASSWORD)

(* C28: when the db.write() of a webhook for a known order lands, db.json  *)
(* differs from what it held only in that order's payment_status, paid_at  *)
(* and updated_at.                                                         *)
WebhookFields == {"payment_status", "paid_at", "updated_at"}

SameBut(was, is, fields) ==
  /\ DOMAIN is = DOMAIN was
  /\ \A f \in DOMAIN was \ fields : is[f] = was[f]

C28_Step ==
  \A s \in Slots :
     ( /\ reqs[s].kind = "webhook" /\ reqs[s].pc = "write" /\ reqs'[s].pc # "write"
       /\ findIndex(file.orders, reqs[s].body.order_id) # 0 ) =>
        /\ file'.products = file.products
        /\ Len(file'.orders) = Len(file.orders)
        /\ \A i \in 1..Len(file.orders) :
             IF file.orders[i].id = reqs[s].body.order_id
               THEN SameBut(file.orders[i], file'.orders[i], WebhookFields)
               ELSE file'.orders[i] = file.orders[i]

C28_WebhookFrame == [][C28_Step]_vars

(* C29: when the db.write() of an accepted submit-code lands, the order in *)
(* db.json differs from what db.json held only in code, status,            *)
(* code_submitted_at and updated_at: its cart, amount and email (and the   *)
(* catalog) are the ones stored before.                                    *)
SubmitCodeFields == {"code", "status", "code_submitted_at", "updated_at"}

C29_Step ==
  \A s \in Slots :
     ( /\ reqs[s].kind = "submit_code" /\ reqs[s].pc = "write" /\ reqs'[s].pc # "write"
       /\ findIndex(file.orders, reqs[s].body.order_id) # 0 ) =>
        /\ file'.products = file.products
        /\ \A i \in 1..Len(file.orders) :
             file.orders[i].id = reqs[s].body.order_id =>
               /\ i <= Len(file'.orders)
               /\ SameBut(file.orders[i], file'.orders[i], SubmitCodeFields)

C29_SubmitCodeFrame == [][C29_Step]_vars

(* C30: a webhook whose order the handler finds completed or rejected      *)
(* changes no field of that order: what the handler hands to db.write()    *)
(* holds the order as it was read.                                         *)
TerminalStatuses == {"completed", "rejected"}

C30_Step ==
  \A s \in Slots :
     (reqs[s].kind = "webhook" /\ reqs[s].pc = "read" /\ reqs'[s].pc = "write") =>
        LET i == findIndex(reqs[s].img.orders, reqs[s].body.order_id)
        IN  reqs[s].img.orders[i].status \in TerminalStatuses =>
              reqs'[s].img.orders[i] = reqs[s].img.orders[i]

C30_TerminalOrderUntouched == [][C30_Step]_vars

(* C31: on a deployment whose shop id or password is not configured,      *)
(* every create-payment request with items and a method is answered        *)
(* PAYMENT_NOT_CONFIGURED, no order is added to db.json and nothing is     *)
(* sent to the gateway.                                                    *)
NotConfigured ==
  CONFIG.SHOP_ID \in {0, NaN} \/ Len(CONFIG.BILEE_PASSWORD) = 0

C31_Refused ==
  \A s \in Slots :
     ( /\ reqs[s].kind = "create_payment"
       /\ Has(reqs[s].body, "items") /\ Has(reqs[s].body, "method") ) =>
     Failed(s, "create_payment", "PAYMENT_NOT_CONFIGURED")

C31_NotConfiguredRejected ==
  /\ [](NotConfigured => (C31_Refused /\ gateway = <<>>))
  /\ [][NotConfigured => file'.orders = file.orders]_vars

(* C32: the step that answers a create-payment answers success only on a   *)
(* gateway response with a URL, and then the answer carries that URL and   *)
(* db.json holds an order with the answered order_id, in status created,   *)
(* with the answered amount; a response without a URL is answered with an  *)
(* error.                                                                  *)
C32_Step ==
  \A s \in Slots :
     (reqs[s].kind = "create_payment" /\ reqs[s].pc # "done" /\ reqs'[s].pc = "done") =>
        LET resp == reqs'[s].resp
        IN  /\ resp.success =>
                 /\ reqs[s].pc = "gateway" /\ reqs'[s].loc.reply = "url"
                 /\ resp.url = "pay"
                 /\ \E i \in 1..Len(file'.orders) :
                      /\ file'.orders[i].id = resp.order_id
                      /\ file'.orders[i].status = "created"
                      /\ file'.orders[i].amount = resp.amount
            /\ (reqs[s].pc = "gateway" /\ reqs'[s].loc.reply = "no_url") =>
                 ~resp.success /\ resp.http # 200

C32_SuccessOnlyWithUrl == [][C32_Step]_vars

(* C33: every order create-payment hands to db.write() has amount > 0, and *)
(* every order of db.json has amount >= 0.                                 *)
C33_Step ==
  \A s \in Slots :
     (reqs[s].kind = "create_payment" /\ reqs[s].pc = "read" /\ reqs'[s].pc = "write") =>
        \A i \in 1..Len(reqs'[s].img.orders) :
           reqs'[s].img.orders[i].id = reqs[s].loc.order_id =>
             reqs'[s].img.orders[i].amount > 0

C33_AmountPositive ==
  /\ [][C33_Step]_vars
  /\ [](\A i \in 1..Len(file.orders) : file.orders[i].amount >= 0)

(* C34: an answered order list holds, of the orders read, those with the   *)
(* status asked for (all without a filter), later created_at first,        *)
(* entries offset .. offset + limit - 1 of that sequence; the step that    *)
(* answers leaves db.json alone, and db.data holds the orders read, each   *)
(* with its fields, possibly in another order.                             *)
Bijections(S, T) ==
  {f \in [S -> T] : \A t \in T : \E x \in S : f[x] = t}

Listed(s) == Done(s, "admin_orders") /\ reqs[s].resp.http = 200

C34_Page(s) ==
  LET query    == reqs[s].body
      read     == reqs[s].loc.read.orders
      page     == reqs[s].resp.orders
      matching == {i \in DOMAIN read :
                     Has(query, "status") => read[i].status = query.status}
      n        == Cardinality(matching)
      k        == IF Has(query, "offset") THEN query.offset ELSE 0
      limit    == IF Has(query, "limit") THEN query.limit ELSE 50
      rest     == IF n > k THEN n - k ELSE 0
  IN  /\ Len(page) = IF limit < rest THEN limit ELSE rest
      /\ reqs[s].resp.total = n
      /\ \E full \in Bijections(1..n, matching) :
           /\ \A i, j \in 1..n :
                i < j => read[full[i]].created_at >= read[full[j]].created_at
           /\ \A j \in DOMAIN page :
                /\ page[j].id = read[full[k + j]].id
                /\ page[j].status = read[full[k + j]].status
                /\ page[j].created_at = read[full[k + j]].created_at
                /\ page[j].amount = read[full[k + j]].amount
                /\ page[j].email = read[full[k + j]].email

C34_Step ==
  \A s \in Slots :
     (reqs[s].kind = "admin_orders" /\ reqs[s].pc = "read" /\ reqs'[s].pc = "done") =>
        /\ file' = file /\ writeQ' = writeQ
        /\ data'.products = reqs[s].img.products
        /\ \E f \in Bijections(DOMAIN data'.orders, DOMAIN reqs[s].img.orders) :
             \A i \in DOMAIN data'.orders : data'.orders[i] = reqs[s].img.orders[f[i]]

C34_OrderList == [](\A s \in Slots : Listed(s) => C34_Page(s)) /\ [][C34_Step]_vars

C34_Witness ==
  \E s \in Slots :
     /\ Listed(s)
     /\ reqs[s].body = [secret |-> "s3cret", limit |-> 1, offset |-> 1]
     /\ reqs[s].loc.read.orders = <<OrderCreated, OrderPendingEmail, OrderLater>>
     /\ Len(reqs[s].resp.orders) = 1
     /\ reqs[s].resp.orders[1].id = DuckId
     /\ reqs[s].resp.total = 3
     /\ data.orders = <<OrderLater, OrderCreated, OrderPendingEmail>>
     /\ file.orders = <<OrderCreated, OrderPendingEmail, OrderLater>>

(* C35: the code_submitted notification a submit-code sends after its      *)
(* db.write() carries the cart and the amount of the order it wrote the    *)
(* code to.                                                                *)
C35_Step ==
  \A s \in Slots :
     (reqs[s].kind = "submit_code" /\ reqs[s].pc = "write" /\ reqs'[s].pc = "notify") =>
        LET order == reqs[s].img.orders[reqs[s].loc.orderIndex]
            sent  == reqs'[s].loc.notify
        IN  /\ order.id = reqs[s].body.order_id
            /\ sent.order_id = order.id
            /\ sent.items = order.cart
            /\ sent.amount = order.amount

C35_NotificationOfOwnOrder == [][C35_Step]_vars

(* C36: once a create-payment has been answered after a failed gateway     *)
(* call (timeout, non-2xx, no URL), the answer is an error and db.json     *)
(* holds, from then on, the order the handler stored, in status created.   *)
GatewayFailed(s) ==
  /\ Done(s, "create_payment")
  /\ Has(reqs[s].loc, "reply")
  /\ reqs[s].loc.reply \in {"timeout", "non_2xx", "no_url"}

C36_OrderKeptAfterFailure ==
  \A s \in Slots :
     GatewayFailed(s) =>
       /\ ~reqs[s].resp.success
       /\ \E i \in 1..Len(file.orders) :
            /\ file.orders[i].id = reqs[s].loc.order_id
            /\ file.orders[i].status = "created"
            /\ file.orders[i].amount = reqs[s].loc.amountRub

(* C37: a submit-code that finds its order completed or rejected, with the *)
(* email it sent, is not refused: the handler writes the order with the    *)
(* submitted code, status pending_code and completed_at / rejected_at as   *)
(* they were, and that is what db.json holds when the write lands.         *)
C37_Step ==
  \A s \in Slots :
     /\ (reqs[s].kind = "submit_code" /\ reqs[s].pc = "read" /\ reqs'[s].pc # "read") =>
          LET i == findIndex(reqs[s].img.orders, reqs[s].body.order_id)
          IN  (i # 0 /\ reqs[s].img.orders[i].status \in TerminalStatuses
                     /\ reqs[s].img.orders[i].email = reqs[s].body.email) =>
                /\ reqs'[s].pc = "write"
                /\ reqs'[s].img.orders[i].code = reqs[s].body.code
                /\ reqs'[s].img.orders[i].status = "pending_code"
                /\ reqs'[s].img.orders[i].completed_at = reqs[s].img.orders[i].completed_at
                /\ reqs'[s].img.orders[i].rejected_at = reqs[s].img.orders[i].rejected_at
                /\ {reqs'[s].img.orders[i].completed_at,
                    reqs'[s].img.orders[i].rejected_at} # {NoTime}
     /\ (reqs[s].kind = "submit_code" /\ reqs[s].pc = "write" /\ reqs'[s].pc # "write") =>
          file'.orders = reqs[s].img.orders

C37_TerminalNotLocked == [][C37_Step]_vars

C37_Witness ==
  \E s \in Slots :
     /\ Succeeded(s, "submit_code")
     /\ reqs[s].body.code = "123456"
     /\ Len(file.orders) = 1
     /\ file.orders[1].status = "pending_code"
     /\ file.orders[1].code = "123456"
     /\ file.orders[1].rejected_at = 0
     /\ file.orders[1].code_submitted_at = now

(* C38: the amount of every order of db.json, and of every order a handler *)
(* hands to db.write(), is at most MAX_CART_TOTAL.                         *)
AmountsWithin(orders) ==
  \A i \in 1..Len(orders) : orders[i].amount <= CONFIG.MAX_CART_TOTAL

C38_Stored ==
  /\ AmountsWithin(file.orders)
  /\ AmountsWithin(data.orders)
  /\ \A s \in Slots : reqs[s].pc = "write" => AmountsWithin(reqs[s].img.orders)

(* A request answered CART_LIMIT_EXCEEDED has written nothing, and a       *)
(* handler other than create-payment and submit-email hands db.write() the *)
(* orders it read with their amounts as they were.                         *)
C38_Step ==
  \A s \in Slots :
     /\ (reqs[s].pc # "done" /\ reqs'[s].pc = "done"
           /\ Has(reqs'[s].resp, "code")
           /\ reqs'[s].resp.code = "CART_LIMIT_EXCEEDED") =>
          /\ reqs'[s].kind \in {"create_payment", "submit_email"}
          /\ reqs[s].pc # "write"
          /\ file' = file /\ writeQ' = writeQ
     /\ (reqs[s].pc = "read" /\ reqs'[s].pc = "write"
           /\ reqs[s].kind \notin {"create_payment", "submit_email"}) =>
          /\ Len(reqs'[s].img.orders) = Len(reqs[s].img.orders)
          /\ \A i \in 1..Len(reqs[s].img.orders) :
                reqs'[s].img.orders[i].amount = reqs[s].img.orders[i].amount

C38_AmountWithinCeiling == []C38_Stored /\ [][C38_Step]_vars

C38_Witness ==
  \E s, t \in Slots :
     /\ Failed(s, "create_payment", "CART_LIMIT_EXCEEDED")
     /\ Failed(t, "submit_email", "CART_LIMIT_EXCEEDED")
     /\ reqs[s].body.items = Cart_c30x60 /\ reqs[t].body.cart = Cart_c30x60
     /\ AmountsWithin(file.orders)

(* C39: in the in-memory revision every order's status is pending, paid   *)
(* or failed; an order enters the array as pending, a status changes only  *)
(* in a payment-webhook for that order with status success (to paid) or    *)
(* failed (to failed), a webhook with another status or an unknown order   *)
(* id changes nothing, and a failed webhook sets failed whatever the       *)
(* status was, paid included.                                              *)
MemStatuses == {"pending", "paid", "failed"}

C39_Statuses ==
  \A i \in 1..Len(data.orders) : data.orders[i].status \in MemStatuses

(* The step accepts a payment-webhook, in slot s.                           *)
WebhookAccepted(s) ==
  Free(s) /\ started' = started + 1 /\ reqs'[s].kind = "payment_webhook"

C39_Step ==
  /\ Len(data'.orders) >= Len(data.orders)
  /\ \A i \in 1..Len(data'.orders) :
        IF i > Len(data.orders)
          THEN data'.orders[i].status = "pending"
          ELSE /\ data'.orders[i].orderId = data.orders[i].orderId
               /\ data'.orders[i].status # data.orders[i].status =>
                    \E s \in Slots :
                       /\ WebhookAccepted(s)
                       /\ Has(reqs'[s].body, "order_id") /\ Has(reqs'[s].body, "status")
                       /\ findOrderIndex(data.orders, reqs'[s].body.order_id) = i
                       /\ \/ reqs'[s].body.status = "success"
                             /\ data'.orders[i].status = "paid"
                          \/ reqs'[s].body.status = "failed"
                             /\ data'.orders[i].status = "failed"
  /\ \A s \in Slots :
        WebhookAccepted(s) =>
          LET body == reqs'[s].body
              i == IF Has(body, "order_id")
                     THEN findOrderIndex(data.orders, body.order_id) ELSE 0
          IN  /\ (i = 0 \/ ~Has(body, "status")
                    \/ body.status \notin {"success", "failed"}) => data' = data
              /\ (i # 0 /\ Has(body, "status") /\ body.status = "failed") =>
                    data'.orders[i].status = "failed"
              /\ (i # 0 /\ Has(body, "status") /\ body.status = "success") =>
                    data'.orders[i].status = "paid"

C39_StatusLifecycle == []C39_Statuses /\ [][C39_Step]_vars

(* An order that a success webhook made paid and a later failed webhook    *)
(* made failed, with a webhook of another status answered as well.         *)
C39_Witness ==
  \E s, t \in Slots : \E i \in 1..Len(data.orders) :
     /\ Done(s, "payment_webhook") /\ Done(t, "payment_webhook")
     /\ reqs[s].body = [order_id |-> data.orders[i].orderId, status |-> "success"]
     /\ reqs[t].body = [order_id |-> data.orders[i].orderId, status |-> "failed"]
     /\ data.orders[i].status = "failed"
     /\ data.orders[i].paymentUrl = "pay"

====
